---- MODULE Spec2Model ----
(***************************************************************************)
(* A model of the MCP conformance action: the test-mode run                *)
(* (runTestMode, runAllConformanceTests, updateAllBadges), the comment-mode *)
(* run (runCommentMode, fetchBaselineResults, postOrUpdateComment) and the  *)
(* pure result parser (parseConformanceOutput, parseOldResultsFile).        *)
(***************************************************************************)
EXTENDS Integers, Sequences, FiniteSets, TLC

VARIABLES
  testType,  \* test mode: inputs.testType
  servers,   \* test mode: inputs.servers
  clients,   \* test mode: inputs.clients
  badgeOn,   \* test mode: badge gist configured and the event is a push to main/canary
  pc,        \* where the run is
  cur,       \* index of the target, badge or baseline branch being processed
  sub,       \* index of the setup command or scenario being run; id of the comment found
  results,   \* test mode: the results array of runAllConformanceTests
  loop,      \* test mode: locals of the scenario loop of runClientConformanceTest
  outputs,   \* test mode: the action outputs set by core.setOutput
  runFailed, \* core.setFailed was called
  log,       \* the calls made to the collaborators and the log lines, in order
  faults,    \* number of collaborator calls that threw so far
  pText,     \* parser: the text handed to the parser
  pResult,   \* parser: the ServerTestResult it returned, or NoResult
  pParser,   \* parser: which of the two line-scan parsers ran, or None
  pAgain,    \* parser: what a second call with the same arguments returned, or NoResult
  fIn,       \* pure functions: the function called and its arguments, or NoCall
  fOut,      \* pure functions: the value it returned, or NoValue
  cin,       \* comment mode: the inputs and the downloaded files of the current run
  comments,  \* comment mode: the comments of the pull request, oldest first
  before,    \* comment mode: the comments when the current run started
  modes,     \* comment mode: the commentMode of every run on the pull request so far
  baselines  \* comment mode: the baselines record of runCommentMode

config == <<testType, servers, clients, badgeOn>>

testVars == <<testType, servers, clients, badgeOn, pc, cur, sub, results, loop,
              outputs, runFailed, log, faults>>

parseVars == <<pText, pResult, pParser, pAgain>>

callVars == <<fIn, fOut>>

\* the variables of the pure functions
pureVars == <<parseVars, callVars>>

commentVars == <<cin, comments, before, modes, baselines>>

vars == <<testVars, pureVars, commentVars>>

None == "none"

\* the absent ServerTestResult
NoResult == [absent |-> TRUE]

\* no pure function is being called; it has not returned
NoCall == [fn |-> None]
NoValue == [returned |-> FALSE]

(***************************************************************************)
(* Texts.  A string is modelled by the sequence of its lines (what          *)
(* split('\n') returns, so the empty string is the one empty line), and a   *)
(* line by the sequence of its characters.  The characters that matter to   *)
(* the patterns of the parser are the check glyph, the cross glyph, white   *)
(* space and the colon; "a" and "b" stand for any other character.          *)
(***************************************************************************)
CheckGlyph == "check"
CrossGlyph == "cross"
Space == " "
Colon == ":"

EmptyText == << <<>> >>

\* the lines "<check> <n>" and "<cross> <n>"
PassLine(n) == <<CheckGlyph, Space>> \o n
FailLine(n) == <<CrossGlyph, Space>> \o n

\* s1 + '\n' + s2
JoinNl(s1, s2) == s1 \o s2

\* s1 + s2
Concat(s1, s2) ==
  SubSeq(s1, 1, Len(s1) - 1) \o << s1[Len(s1)] \o s2[1] >> \o SubSeq(s2, 2, Len(s2))

(***************************************************************************)
(* String.prototype.trim.                                                   *)
(***************************************************************************)
RECURSIVE TrimLeft(_)
TrimLeft(s) == IF s # <<>> /\ s[1] = Space THEN TrimLeft(Tail(s)) ELSE s

RECURSIVE TrimRight(_)
TrimRight(s) ==
  IF s # <<>> /\ s[Len(s)] = Space THEN TrimRight(SubSeq(s, 1, Len(s) - 1)) ELSE s

Trim(s) == TrimRight(TrimLeft(s))

(***************************************************************************)
(* line.match(/[glyph]\s+(.+?)(?::|$)/): the capture group of the leftmost  *)
(* match, if any.  At a glyph at position i followed by w >= 1 white-space *)
(* characters, \s+ is greedy but gives characters back until one character  *)
(* is left for the lazy group, which then runs to the first position that   *)
(* is followed by a colon or by the end of the line.                        *)
(***************************************************************************)
RECURSIVE SpaceRun(_, _)
SpaceRun(line, i) ==
  IF i <= Len(line) /\ line[i] = Space THEN 1 + SpaceRun(line, i + 1) ELSE 0

CaptureStart(line, i) ==
  LET w == SpaceRun(line, i + 1)
      c == IF i + w + 1 <= Len(line) THEN i + w + 1 ELSE Len(line)
  IN  IF w >= 1 /\ c >= i + 2 THEN c ELSE 0

CaptureEnd(line, c) ==
  CHOOSE e \in c..Len(line) :
    /\ e = Len(line) \/ line[e + 1] = Colon
    /\ \A d \in c..(e - 1) : line[d + 1] # Colon

MatchGlyph(line, glyph) ==
  LET hits == { i \in 1..Len(line) : line[i] = glyph /\ CaptureStart(line, i) # 0 }
  IN  IF hits = {} THEN [matched |-> FALSE]
      ELSE LET i == CHOOSE h \in hits : \A g \in hits : h <= g
               c == CaptureStart(line, i)
           IN  [matched |-> TRUE, name |-> SubSeq(line, c, CaptureEnd(line, c))]

(***************************************************************************)
(* Math.round((passed / total) * 100) on IEEE-754 doubles.  A positive      *)
(* double is a 53-bit mantissa (most significant bit first) and an exponent *)
(* exp, its value being mantissa * 2^(-exp).  Division and multiplication   *)
(* round to the nearest double, ties to even; Math.round rounds to the      *)
(* nearest integer, ties upwards.                                           *)
(***************************************************************************)
MantissaBits == 53
ChunkBits == 10

\* the sequence f[1], ..., f[n]
Tuple(f, n) == SubSeq(f, 1, n)

\* the mantissa plus one unit in the last place; carry = 1 when it wraps to 2^53
RoundUp(bits) ==
  LET zeros == { i \in 1..Len(bits) : bits[i] = 0 }
  IN  IF zeros = {}
      THEN [mant |-> Tuple([i \in 1..Len(bits) |-> IF i = 1 THEN 1 ELSE 0], Len(bits)),
            carry |-> 1]
      ELSE LET z == CHOOSE i \in zeros : \A j \in zeros : j <= i
           IN  [mant |-> Tuple([i \in 1..Len(bits) |->
                                  IF i < z THEN bits[i] ELSE IF i = z THEN 1 ELSE 0],
                                Len(bits)),
                carry |-> 0]

\* 2^k modulo t, by repeated squaring
RECURSIVE PowMod(_, _)
PowMod(k, t) ==
  IF k = 0 THEN 1 % t
  ELSE LET h == PowMod(k \div 2, t)
       IN  IF h >= 0 THEN (h * h * (IF k % 2 = 1 THEN 2 ELSE 1)) % t ELSE h

\* the remainder of the long division of p by t after k binary digits
DivRem(p, t, k) == (p * PowMod(k, t)) % t

\* the k-th digit after the binary point of p / t, for 0 < p < t
DivDigit(p, t, k) == (2 * DivRem(p, t, k - 1)) \div t

\* the double p / t, for 0 < p < t
FlDiv(p, t) ==
  LET lead == CHOOSE k \in 1..t : DivDigit(p, t, k) = 1
                                    /\ \A j \in 1..(k - 1) : DivDigit(p, t, j) = 0
      bits == Tuple([i \in 1..MantissaBits |-> DivDigit(p, t, lead + i - 1)],
                    MantissaBits)
      rem == DivRem(p, t, lead + MantissaBits - 1)
      e == lead + MantissaBits - 1
      up == 2 * rem > t \/ (2 * rem = t /\ bits[MantissaBits] = 1)
      r == RoundUp(bits)
  IN  IF up THEN [mant |-> r.mant, exp |-> e - r.carry]
      ELSE [mant |-> bits, exp |-> e]

\* the value of at most ChunkBits bits, most significant first
BitsValue(bits) ==
  LET RECURSIVE sum(_, _)
      sum(lo, hi) ==
        IF lo > hi THEN 0
        ELSE IF lo = hi THEN bits[lo] * 2^(Len(bits) - lo)
        ELSE LET mid == (lo + hi) \div 2 IN sum(lo, mid) + sum(mid + 1, hi)
  IN  sum(1, Len(bits))

\* bits times 100, the bits taken in chunks of ChunkBits from the least
\* significant end; the product has Len(bits) bits
MulChunks(bits) ==
  LET n == Len(bits) \div ChunkBits
      chunks == Tuple([c \in 1..n |->
                   BitsValue(SubSeq(bits, (c - 1) * ChunkBits + 1, c * ChunkBits))], n)
      RECURSIVE carry(_)
      carry(c) == IF c > n THEN 0 ELSE (chunks[c] * 100 + carry(c + 1)) \div 2^ChunkBits
      digits == Tuple([c \in 1..n |-> (chunks[c] * 100 + carry(c + 1)) % 2^ChunkBits], n)
  IN  Tuple([i \in 1..Len(bits) |->
               LET c == (i - 1) \div ChunkBits + 1
                   k == c * ChunkBits - i
               IN  (digits[c] \div 2^k) % 2], Len(bits))

\* the double d * 100
FlMul100(d) ==
  LET pad == ChunkBits - (MantissaBits % ChunkBits)
      wide == MulChunks(Tuple([i \in 1..(MantissaBits + pad) |->
                                 IF i <= pad THEN 0 ELSE d.mant[i - pad]],
                               MantissaBits + pad))
      first == CHOOSE i \in 1..Len(wide) : wide[i] = 1 /\ \A j \in 1..(i - 1) : wide[j] = 0
      prod == SubSeq(wide, first, Len(wide))
      k == Len(prod) - MantissaBits
      top == SubSeq(prod, 1, MantissaBits)
      guard == prod[MantissaBits + 1]
      sticky == \E i \in (MantissaBits + 2)..Len(prod) : prod[i] = 1
      up == guard = 1 /\ (sticky \/ top[MantissaBits] = 1)
      r == RoundUp(top)
  IN  IF up THEN [mant |-> r.mant, exp |-> d.exp - k - r.carry]
      ELSE [mant |-> top, exp |-> d.exp - k]

\* Math.round(d), for 1 <= exp (d is below 2^52)
MathRound(d) ==
  IF d.exp > MantissaBits THEN 0
  ELSE BitsValue(SubSeq(d.mant, 1, MantissaBits - d.exp))
         + d.mant[MantissaBits - d.exp + 1]

\* total > 0 ? Math.round((passed / total) * 100) : 0
\* Math.round((passed / total) * 100) for 0 < passed < total
FlRate(passed, total) == MathRound(FlMul100(FlDiv(passed, total)))

\* the values of FlRate for the totals up to MemoCount, computed once
MemoCount == 4

RateMemo ==
  Tuple([t \in 1..MemoCount |->
           Tuple([p \in 1..t |-> IF p < t THEN FlRate(p, t) ELSE 100], t)],
        MemoCount)

Rate(passed, total) ==
  IF total > 0
  THEN IF passed = 0 THEN 0
       ELSE IF passed = total THEN 100
       ELSE IF total <= MemoCount THEN RateMemo[total][passed]
       ELSE FlRate(passed, total)
  ELSE 0

\* round(100 * passed / total) in exact arithmetic, halves upwards
RoundPercent(passed, total) == (200 * passed + total) \div (2 * total)

(***************************************************************************)
(* The line scan of parseConformanceOutput and parseOldResultsFile.         *)
(***************************************************************************)
EmptyTests == <<>>

\* tests[name] = value
SetTest(tests, name, value) == (name :> value) @@ tests

EmptyScan == [tests |-> EmptyTests, passed |-> 0, failed |-> 0]

\* a loop body that counts a line matching neither pattern as a failure
ScanLineStrict(acc, line) ==
  LET passMatch == MatchGlyph(line, CheckGlyph)
      failMatch == MatchGlyph(line, CrossGlyph)
  IN  IF passMatch.matched
      THEN [tests |-> SetTest(acc.tests, Trim(passMatch.name), TRUE),
            passed |-> acc.passed + 1, failed |-> acc.failed]
      ELSE IF failMatch.matched
      THEN [tests |-> SetTest(acc.tests, Trim(failMatch.name), FALSE),
            passed |-> acc.passed, failed |-> acc.failed + 1]
      ELSE [tests |-> acc.tests, passed |-> acc.passed, failed |-> acc.failed + 1]

\* the body of the loop over the lines
ScanLine(acc, line) ==
  LET passMatch == MatchGlyph(line, CheckGlyph)
      failMatch == MatchGlyph(line, CrossGlyph)
  IN  IF passMatch.matched
      THEN [tests |-> SetTest(acc.tests, Trim(passMatch.name), TRUE),
            passed |-> acc.passed + 1, failed |-> acc.failed]
      ELSE IF failMatch.matched
      THEN [tests |-> SetTest(acc.tests, Trim(failMatch.name), FALSE),
            passed |-> acc.passed, failed |-> acc.failed + 1]
      ELSE acc

\* for (const line of lines) over lines[lo..hi]; the range is split in halves
\* and the left half is evaluated before the right one is entered
RECURSIVE ScanLines(_, _, _, _)
ScanLines(acc, lines, lo, hi) ==
  IF lo > hi THEN acc
  ELSE IF lo = hi THEN ScanLine(acc, lines[lo])
  ELSE LET mid == (lo + hi) \div 2
           left == ScanLines(acc, lines, lo, mid)
       IN  IF left.passed + left.failed >= 0
           THEN ScanLines(left, lines, mid + 1, hi)
           ELSE left

\* a result that does not keep the text
MakeResultWithoutText(serverName, tests, passed, failed, rawOutput) ==
  LET total == passed + failed
  IN  [serverName |-> serverName, passed |-> passed, failed |-> failed,
       total |-> total, rate |-> Rate(passed, total),
       tests |-> tests, rawOutput |-> EmptyText]

\* const total = passed + failed; const rate = ...; return {...}
MakeResult(serverName, tests, passed, failed, rawOutput) ==
  LET total == passed + failed
  IN  [serverName |-> serverName, passed |-> passed, failed |-> failed,
       total |-> total, rate |-> Rate(passed, total),
       tests |-> tests, rawOutput |-> rawOutput]

parseConformanceOutput(serverName, output) ==
  LET acc == ScanLines(EmptyScan, output, 1, Len(output))
  IN  MakeResult(serverName, acc.tests, acc.passed, acc.failed, output)

parseOldResultsFile(content, serverName) ==
  LET acc == ScanLines(EmptyScan, content, 1, Len(content))
  IN  MakeResult(serverName, acc.tests, acc.passed, acc.failed, content)

(***************************************************************************)
(* The collaborators.  A call either returns or throws.  exec.exec rejects  *)
(* when the subprocess cannot be started (and, without ignoreReturnCode,    *)
(* when it exits non-zero), so a call that throws has delivered nothing to  *)
(* its stdout/stderr listeners.                                             *)
(***************************************************************************)
PassedMarker == "OVERALL: PASSED"
ClientHeader == "Client scenarios"
ServerHeader == "Server scenarios"
Dash == "-"
DraftTag == "[draft]"
ExtensionTag == "[extension]"

\* line.includes(literal), the literal being one character of the model
Includes(line, literal) == \E i \in 1..Len(line) : line[i] = literal

\* text.includes(literal), for a literal without a line break
TextIncludes(text, literal) == \E l \in 1..Len(text) : Includes(text[l], literal)

Event(op, kind, i, j, ok) == [op |-> op, kind |-> kind, i |-> i, j |-> j, ok |-> ok]

\* the checker invocation of scenario j, called name, of client i, and the
\* text its listeners captured
ScenarioEvent(i, j, name, ok, text) ==
  [op |-> "scenario", kind |-> "client", i |-> i, j |-> j, ok |-> ok, name |-> name,
   text |-> text]

\* the list subcommand of the checker, called for client i, returned and the
\* scan of its output found the scenarios found
ListEvent(i, found) ==
  [op |-> "list", kind |-> "client", i |-> i, j |-> Len(found), ok |-> TRUE,
   found |-> found]

\* what the checker prints in server mode: [out |-> stdout, err |-> stderr]
ServerOutputs ==
  { [out |-> <<PassLine(<<"a">>), PassLine(<<"b">>)>>, err |-> EmptyText],
    [out |-> <<PassLine(<<"a">>)>>, err |-> <<FailLine(<<"b", Colon, Space, "a">>)>>] }

\* what the checker prints for one client scenario (stdout and stderr together)
ScenarioTexts ==
  { << FailLine(<<"a">>), <<"b", PassedMarker>> >>,
    << PassLine(<<"a">>) >> }

\* what the checker's list subcommand prints
Entry(id) == <<Space, Space, Dash, Space, id>>
Listings ==
  { EmptyText,
    << <<ClientHeader>>, Entry("sc1"), Entry("sc2") \o <<Space, DraftTag>>, <<>>,
       <<ServerHeader>>, Entry("sc3") >>,
    << <<ServerHeader>>, Entry("sc3"), <<ClientHeader>>, <<>>, Entry("sc2"),
       Entry("sc1") \o <<Space, ExtensionTag>>, Entry("sc1") >> }

(***************************************************************************)
(* listClientScenarios: the scan of the listing.                            *)
(***************************************************************************)
RECURSIVE NonSpaceRun(_, _)
NonSpaceRun(line, i) ==
  IF i <= Len(line) /\ line[i] # Space THEN 1 + NonSpaceRun(line, i + 1) ELSE 0

\* line.match(/^\s+-\s+(\S+)/)
MatchEntry(line) ==
  LET w1 == SpaceRun(line, 1)
      w2 == SpaceRun(line, w1 + 2)
      c == w1 + 2 + w2
  IN  IF w1 >= 1 /\ w1 + 1 <= Len(line) /\ line[w1 + 1] = Dash /\ w2 >= 1
         /\ c <= Len(line)
      THEN [matched |-> TRUE, name |-> SubSeq(line, c, c + NonSpaceRun(line, c) - 1)]
      ELSE [matched |-> FALSE]

\* a filter that lets every entry through
AnyMaturity(line) == TRUE

\* !line.includes('[draft]') && !line.includes('[extension]')
IsStable(line) == ~Includes(line, DraftTag) /\ ~Includes(line, ExtensionTag)

RECURSIVE ListScan(_, _, _, _)
ListScan(lines, i, inClientSection, scenarios) ==
  IF i > Len(lines) THEN scenarios
  ELSE LET line == lines[i]
           match == MatchEntry(line)
       IN  IF Includes(line, ClientHeader) THEN ListScan(lines, i + 1, TRUE, scenarios)
           ELSE IF ~inClientSection THEN ListScan(lines, i + 1, FALSE, scenarios)
           ELSE IF Includes(line, ServerHeader)
                   \/ (Len(scenarios) > 0 /\ Trim(line) = <<>>)
                THEN scenarios
           ELSE IF match.matched /\ IsStable(line)
                THEN ListScan(lines, i + 1, TRUE, Append(scenarios, match.name))
           ELSE ListScan(lines, i + 1, TRUE, scenarios)

listClientScenarios(output) == ListScan(output, 1, FALSE, <<>>)

(***************************************************************************)
(* Test mode: runTestMode, runAllConformanceTests, runServerConformanceTest,*)
(* runClientConformanceTest, updateAllBadges.  Each action is one step of   *)
(* the run between two awaits.                                              *)
(***************************************************************************)
MaxTargets == 2
MaxClients == 1
MaxSetup == 1
MaxFaults == 1

TestTypes == {"server", "client", "both"}

ServerName(i) == <<"server", i>>
ClientName(i) == <<"client", i>>

\* the values of the scenarios input of a client: absent, or a list
ExplicitScenarios ==
  { <<>>, << <<"sc1">>, <<"sc2">> >>, << <<"sc2">>, <<"sc2">> >> }

\* the values of the command input of a client: a command line, or absent
ClientCommands == {"cmd", None}

\* a target has no setup commands, or MaxSetup of them
SetupCounts == {0, MaxSetup}

\* the targets of one kind are configured alike: the same number of setup
\* commands and, for the clients, the same scenarios and command inputs
ServerConfigs(n) ==
  { [i \in 1..n |-> [name |-> ServerName(i), setup |-> k]] : k \in SetupCounts }

\* the current runner reads the command input of a client nowhere but in the
\* command line of the checker: an absent command comes with one configuration
\* of the other inputs (no setup commands, no scenarios input)
ClientInputs ==
  { x \in [setup : SetupCounts, scenarios : ExplicitScenarios,
           command : ClientCommands] :
      x.command = None => (x.setup = 0 /\ x.scenarios = <<>>) }

ClientConfigs(n) ==
  { [i \in 1..n |-> [name |-> ClientName(i), setup |-> x.setup,
                      scenarios |-> x.scenarios, command |-> x.command]] :
      x \in ClientInputs }

\* the configuration of a target is read only inside the loop over the targets
\* of its kind: the targets of a kind that the test type does not select are
\* configured in one way
Unread(targets) ==
  \A i \in 1..Len(targets) :
    /\ targets[i].setup = 0
    /\ "scenarios" \in DOMAIN targets[i] =>
         targets[i].scenarios = <<>> /\ targets[i].command = "cmd"

NoLoop == [scenarios |-> <<>>, tests |-> EmptyTests, passed |-> 0, failed |-> 0,
           allOutput |-> EmptyText]

NoOutputs == [set |-> FALSE]

\* no comment-mode run is under way
NoInputs == [token |-> FALSE, commentMode |-> None, files |-> None,
             include |-> FALSE, branches |-> 0]

TestInit ==
  /\ testType \in TestTypes
  /\ \E n \in 0..MaxTargets, m \in 0..MaxClients :
       /\ n + m <= MaxTargets
       /\ servers \in ServerConfigs(n)
       /\ clients \in ClientConfigs(m)
  /\ testType = "client" => Unread(servers)
  /\ testType = "server" => Unread(clients)
  /\ badgeOn \in BOOLEAN
  /\ pc = "start"
  /\ cur = 0
  /\ sub = 0
  /\ results = <<>>
  /\ loop = NoLoop
  /\ outputs = NoOutputs
  /\ runFailed = FALSE
  /\ log = <<>>
  /\ faults = 0
  /\ pText = EmptyText
  /\ pResult = NoResult
  /\ pParser = None
  /\ pAgain = NoResult
  /\ fIn = NoCall
  /\ fOut = NoValue
  /\ cin = NoInputs
  /\ comments = <<>>
  /\ before = <<>>
  /\ modes = <<>>
  /\ baselines = <<>>

\* a collaborator call may throw while the run has faults left
CanThrow == faults < MaxFaults

Position(p, i, j) == [pc |-> p, cur |-> i, sub |-> j]

\* an entry that starts the server without its setup commands
EnterUnprepared(i) == Position("server_start", i, 1)

EnterServer(i) ==
  Position(IF servers[i].setup > 0 THEN "server_setup" ELSE "server_start", i, 1)

EnterClient(i) ==
  Position(IF clients[i].setup > 0 THEN "client_setup" ELSE "client_resolve", i, 1)

\* if ((testType === 'client' || testType === 'both') && clients && clients.length > 0)
EnterClients ==
  IF testType \in {"client", "both"} /\ Len(clients) > 0
  THEN EnterClient(1)
  ELSE Position("outputs", 0, 0)

\* an entry that passes over the loop over the servers
SkipServers == EnterClients

\* if (testType === 'server' || testType === 'both') for (const server of servers)
EnterServers ==
  IF testType \in {"server", "both"} /\ Len(servers) > 0
  THEN EnterServer(1)
  ELSE EnterClients

\* a schedule that does not keep the two loops apart: the servers are entered
\* again after the last client
ReenterServers(kind, i) ==
  IF kind = "server"
  THEN IF i < Len(servers) THEN EnterServer(i + 1) ELSE EnterClients
  ELSE IF i < Len(clients) THEN EnterClient(i + 1) ELSE EnterServers

\* the next iteration of the loop over the targets
AfterTarget(kind, i) ==
  IF kind = "server"
  THEN IF i < Len(servers) THEN EnterServer(i + 1) ELSE EnterClients
  ELSE IF i < Len(clients) THEN EnterClient(i + 1) ELSE Position("outputs", 0, 0)

Goto(p) ==
  /\ pc' = p.pc
  /\ cur' = p.cur
  /\ sub' = p.sub

\* rawOutput: `Error: ${error}`
ErrorText(error) == << <<"Error: ", error>> >>

FailedResult(name, error) ==
  [serverName |-> name, passed |-> 0, failed |-> 0, total |-> 0, rate |-> 0,
   tests |-> EmptyTests, rawOutput |-> ErrorText(error)]

\* a catch clause that logs the error and pushes nothing
DropTarget(res, name, error) == [escaped |-> FALSE, results |-> res]

\* the catch clause of the loop over the targets: the failed result is pushed
CatchTarget(res, name, error) ==
  [escaped |-> FALSE, results |-> Append(res, FailedResult(name, error))]

TargetName(kind, i) == IF kind = "server" THEN servers[i].name ELSE clients[i].name

\* an error thrown while target i is processed reaches the try/catch of the loop
TargetThrows(kind, i, error, events) ==
  LET c == CatchTarget(results, TargetName(kind, i), error)
  IN  /\ CanThrow
      /\ faults' = faults + 1
      /\ results' = c.results
      /\ loop' = NoLoop
      /\ IF c.escaped
         THEN /\ Goto(Position("failed", 0, 0))
              /\ runFailed' = TRUE
              /\ log' = log \o events
         ELSE /\ Goto(AfterTarget(kind, i))
              /\ runFailed' = runFailed
              /\ log' = log \o events \o <<Event("error", kind, i, error, FALSE)>>
      /\ UNCHANGED <<config, pureVars, commentVars, outputs>>

\* the target returned its result
TargetReturns(kind, i, result, events) ==
  /\ results' = Append(results, result)
  /\ loop' = NoLoop
  /\ Goto(AfterTarget(kind, i))
  /\ log' = log \o events
  /\ UNCHANGED <<config, pureVars, commentVars, outputs, runFailed, faults>>

\* a step inside a target
TargetStep(p, events) ==
  /\ Goto(p)
  /\ log' = log \o events
  /\ UNCHANGED <<config, pureVars, commentVars, outputs, runFailed, faults,
                 results>>

\* a run that does not look at the number of targets
UncheckedTargets == FALSE

\* inputs.servers.length === 0 && (!inputs.clients || inputs.clients.length === 0)
NoTargets == Len(servers) = 0 /\ Len(clients) = 0

(* runTestMode, up to the call of runAllConformanceTests *)
RunTestMode ==
  /\ pc = "start"
  /\ IF NoTargets
     THEN /\ Goto(Position("failed", 0, 0))
          /\ runFailed' = TRUE
     ELSE /\ Goto(EnterServers)
          /\ runFailed' = runFailed
  /\ UNCHANGED <<config, pureVars, commentVars, results, loop, outputs, log,
                 faults>>

(* runServerConformanceTest: one setup command *)
SetupStep(kind, p, n, after) ==
  /\ pc = p
  /\ \/ TargetThrows(kind, cur, "setup", <<Event("setup", kind, cur, sub, FALSE)>>)
     \/ /\ TargetStep(IF sub < n THEN Position(p, cur, sub + 1)
                                 ELSE Position(after, cur, 1),
                      <<Event("setup", kind, cur, sub, TRUE)>>)
        /\ UNCHANGED loop

ServerSetup == SetupStep("server", "server_setup", servers[cur].setup, "server_start")

\* what startDetachedServer can do: the server runs; the shell is started and
\* exits at once (bad command, missing binary); spawn throws (the working
\* directory is not a directory, the options are invalid); or spawn returns and
\* the child emits 'error' on the next tick (bash or the working directory does
\* not exist), for which no listener is registered, so that the error is thrown
\* out of the event loop and the process of the action exits
StartOutcomes == {"running", "exited", "throws", "crash"}

\* a start that hands the spawned child back to its caller
KeepChild(o) == IF o \in {"running", "exited"} THEN "child" ELSE None

\* what startDetachedServer leaves with its caller of the child it spawned:
\* the child is unref'd and the function returns void
startDetachedServer(o) == None

\* the call of startDetachedServer for server i and what the engine holds of
\* the process afterwards
StartEvent(i, o, ok) ==
  [op |-> "start", kind |-> "server", i |-> i, j |-> o, ok |-> ok,
   handle |-> startDetachedServer(o)]

(* runServerConformanceTest: startDetachedServer *)
StartServer ==
  /\ pc = "server_start"
  /\ \E o \in StartOutcomes :
       IF o = "throws"
       THEN TargetThrows("server", cur, "start",
                         <<StartEvent(cur, o, FALSE)>>)
       ELSE IF o = "crash"
       THEN /\ CanThrow
            /\ faults' = faults + 1
            /\ Goto(Position("crashed", 0, 0))
            /\ log' = Append(log, StartEvent(cur, o, FALSE))
            /\ UNCHANGED <<config, pureVars, commentVars, results, loop, outputs,
                           runFailed>>
       ELSE /\ TargetStep(Position("server_settle", cur, 1),
                          <<StartEvent(cur, o, TRUE)>>)
            /\ UNCHANGED loop

(* runServerConformanceTest: the 5 second wait *)
Settle ==
  /\ pc = "server_settle"
  /\ TargetStep(Position("server_check", cur, 1),
                <<Event("settle", "server", cur, 0, TRUE)>>)
  /\ UNCHANGED loop

\* a runner that stops the process of the server once its checker is done
StopAfterCheck(i) == <<Event("stop", "server", i, 0, TRUE)>>

\* what runServerConformanceTest does with the process of server i between
\* the checker and its return: nothing, the function parses the output and
\* returns
AfterCheck(i) == <<>>

\* the try/catch around the checker: what it leaves in output and errorOutput
RunServerChecker(o) ==
  IF o.threw THEN [escaped |-> FALSE, out |-> EmptyText, err |-> EmptyText]
  ELSE [escaped |-> FALSE, out |-> o.out, err |-> o.err]

ServerCheckOutcomes ==
  { [threw |-> FALSE, out |-> x.out, err |-> x.err] : x \in ServerOutputs }
    \cup { [threw |-> TRUE, out |-> EmptyText, err |-> EmptyText] }

\* the texts runServerConformanceTest can hand to the parser
CheckerTexts ==
  { JoinNl(RunServerChecker(o).out, RunServerChecker(o).err) : o \in ServerCheckOutcomes }

\* parseConformanceOutput(server.name, fullOutput) for every server name and
\* every such text, computed once
ParsedOutputs ==
  [n \in { ServerName(i) : i \in 1..MaxTargets } |->
     [t \in CheckerTexts |-> parseConformanceOutput(n, t)]]

(* runServerConformanceTest: the checker and the parse of its output *)
ServerCheck ==
  /\ pc = "server_check"
  /\ \E o \in ServerCheckOutcomes :
       LET r == RunServerChecker(o)
           ev == Event("check", "server", cur, 0, ~o.threw)
       IN  /\ o.threw => CanThrow
           /\ IF r.escaped
              THEN TargetThrows("server", cur, "check", <<ev>>)
              ELSE /\ results' = Append(results,
                         ParsedOutputs[servers[cur].name][JoinNl(r.out, r.err)])
                   /\ Goto(AfterTarget("server", cur))
                   /\ log' = log \o <<ev>>
                           \o (IF o.threw THEN <<Event("warning", "server", cur, 0, FALSE)>>
                                          ELSE <<>>)
                           \o AfterCheck(cur)
                   /\ faults' = IF o.threw THEN faults + 1 ELSE faults
                   /\ UNCHANGED <<config, pureVars, commentVars, outputs,
                                  runFailed, loop>>

\* a client whose scenarios input is never used
NeverExplicit(client) == FALSE

\* client.scenarios && client.scenarios.length > 0
UsesExplicit(client) == Len(client.scenarios) > 0

ClientSetup == SetupStep("client", "client_setup", clients[cur].setup, "client_resolve")

(* runClientConformanceTest: the scenario set, explicit or listed *)
\* an empty scenario set that is passed over in silence
SilentNoScenarios(i) == <<>>

\* core.warning('No client scenarios found')
WarnNoScenarios(i) == <<Event("warning", "client", i, 0, FALSE)>>

ClientResolve ==
  /\ pc = "client_resolve"
  /\ LET client == clients[cur]
         begin(scenarios, events) ==
           IF Len(scenarios) = 0
           THEN TargetReturns("client", cur, parseConformanceOutput(client.name, EmptyText),
                              events \o WarnNoScenarios(cur))
           ELSE /\ TargetStep(Position("client_scenario", cur, 1), events)
                /\ loop' = [NoLoop EXCEPT !.scenarios = scenarios]
     IN  IF UsesExplicit(client)
         THEN begin(client.scenarios, <<>>)
         ELSE \/ TargetThrows("client", cur, "list",
                              <<Event("list", "client", cur, 0, FALSE)>>)
              \/ \E listing \in Listings :
                   begin(listClientScenarios(listing),
                         <<ListEvent(cur, listClientScenarios(listing))>>)

ScenarioOutcomes ==
  { [threw |-> FALSE, text |-> t] : t \in ScenarioTexts }
    \cup { [threw |-> TRUE, text |-> EmptyText] }

\* a scenario loop without the try/catch: the error leaves the loop
RunScenarioUncaught(o) == [escaped |-> o.threw, output |-> o.text]

\* the try/catch around the checker of one scenario: what it leaves in scenarioOutput
RunScenario(o) ==
  IF o.threw THEN [escaped |-> FALSE, output |-> EmptyText]
  ELSE [escaped |-> FALSE, output |-> o.text]

\* a verdict taken from the pass lines of the text
GlyphVerdict(scenarioOutput) == TextIncludes(scenarioOutput, CheckGlyph)

\* scenarioOutput.includes('OVERALL: PASSED')
ScenarioVerdict(scenarioOutput) == TextIncludes(scenarioOutput, PassedMarker)

\* the verdict and the counters after one scenario
RecordScenario(l, scenario, scenarioOutput) ==
  LET verdict == ScenarioVerdict(scenarioOutput)
  IN  [scenarios |-> l.scenarios,
       tests |-> SetTest(l.tests, scenario, verdict),
       passed |-> IF verdict THEN l.passed + 1 ELSE l.passed,
       failed |-> IF verdict THEN l.failed ELSE l.failed + 1,
       allOutput |-> Concat(l.allOutput, JoinNl(scenarioOutput, EmptyText))]

(* runClientConformanceTest: one scenario of the loop, and the result after the last *)
ClientScenario ==
  /\ pc = "client_scenario"
  /\ \E o \in ScenarioOutcomes :
       LET r == RunScenario(o)
           ev == ScenarioEvent(cur, sub, loop.scenarios[sub], ~o.threw, r.output)
           l == RecordScenario(loop, loop.scenarios[sub], r.output)
           events == <<ev>> \o (IF o.threw
                                THEN <<Event("warning", "client", cur, sub, FALSE)>>
                                ELSE <<>>)
       IN  /\ o.threw => CanThrow
           /\ IF r.escaped
              THEN TargetThrows("client", cur, "scenario", <<ev>>)
              ELSE /\ faults' = IF o.threw THEN faults + 1 ELSE faults
                   /\ log' = log \o events
                   /\ IF sub < Len(loop.scenarios)
                      THEN /\ loop' = l
                           /\ Goto(Position("client_scenario", cur, sub + 1))
                           /\ UNCHANGED results
                      ELSE /\ loop' = NoLoop
                           /\ Goto(AfterTarget("client", cur))
                           /\ results' = Append(results,
                                 MakeResult(clients[cur].name, l.tests, l.passed,
                                            l.failed, l.allOutput))
                   /\ UNCHANGED <<config, pureVars, commentVars, outputs,
                                  runFailed>>

\* results.every(r => r.passed === r.total)
AllPassed(res) == \A k \in 1..Len(res) : res[k].passed = res[k].total

(* runTestMode: core.setOutput('results'), core.setOutput('all-passed') *)
SetOutputs ==
  /\ pc = "outputs"
  /\ outputs' = [set |-> TRUE, results |-> results, allPassed |-> AllPassed(results)]
  /\ Goto(Position("upload", 0, 0))
  /\ UNCHANGED <<config, pureVars, commentVars, results, loop, runFailed, log,
                 faults>>

AfterUpload ==
  IF badgeOn
  THEN IF Len(results) > 0 THEN Position("badge", 1, 0) ELSE Position("done", 0, 0)
  ELSE Position("done", 0, 0)

(* runTestMode: artifact.uploadArtifact in its try/catch *)
Upload ==
  /\ pc = "upload"
  /\ \/ /\ log' = Append(log, Event("upload", "run", 0, 0, TRUE))
        /\ UNCHANGED faults
     \/ /\ CanThrow
        /\ faults' = faults + 1
        /\ log' = log \o <<Event("upload", "run", 0, 0, FALSE),
                           Event("warning", "run", 0, 0, FALSE)>>
  /\ Goto(AfterUpload)
  /\ UNCHANGED <<config, pureVars, commentVars, results, loop, outputs,
                 runFailed>>

\* a loop body without the try/catch: the error leaves updateAllBadges
RethrowBadge(threw) == [escaped |-> threw]

\* the try/catch inside the loop of updateAllBadges
CatchBadge(threw) == [escaped |-> FALSE]

(* updateAllBadges: updateBadgeGist for results[cur] *)
BadgeUpdate ==
  /\ pc = "badge"
  /\ \/ /\ log' = Append(log, Event("badge", "run", cur, 0, TRUE))
        /\ Goto(IF cur < Len(results) THEN Position("badge_sleep", cur, 0)
                                      ELSE Position("done", 0, 0))
        /\ UNCHANGED faults
     \/ /\ CanThrow
        /\ faults' = faults + 1
        /\ log' = log \o <<Event("badge", "run", cur, 0, FALSE),
                           Event("warning", "run", cur, 0, FALSE)>>
        /\ Goto(IF CatchBadge(TRUE).escaped \/ cur = Len(results)
                THEN Position("done", 0, 0)
                ELSE Position("badge", cur + 1, 0))
  /\ UNCHANGED <<config, pureVars, commentVars, results, loop, outputs,
                 runFailed>>

\* the badge to update after the delay, for a loop that updates the same one again
SameBadge(i) == Position("badge", i, 0)

\* the badge to update after the delay: the one of the next result
NextBadge(i) == Position("badge", i + 1, 0)

(* updateAllBadges: await sleep(2000) *)
BadgeSleep ==
  /\ pc = "badge_sleep"
  /\ log' = Append(log, Event("sleep", "run", cur, 0, TRUE))
  /\ Goto(NextBadge(cur))
  /\ UNCHANGED <<config, pureVars, commentVars, results, loop, outputs,
                 runFailed, faults>>

TestNext ==
  \/ RunTestMode
  \/ ServerSetup
  \/ StartServer
  \/ Settle
  \/ ServerCheck
  \/ ClientSetup
  \/ ClientResolve
  \/ ClientScenario
  \/ SetOutputs
  \/ Upload
  \/ BadgeUpdate
  \/ BadgeSleep

Spec == TestInit /\ [][TestNext]_vars

(***************************************************************************)
(* runAllConformanceTests alone: from the entry of the run to the return   *)
(* of the results (pc = "outputs"), without the outputs, the upload and    *)
(* the badges that runTestMode makes of the results afterwards.            *)
(***************************************************************************)
RunnerInit == TestInit /\ badgeOn = FALSE

RunnerNext ==
  \/ RunTestMode
  \/ ServerSetup
  \/ StartServer
  \/ Settle
  \/ ServerCheck
  \/ ClientSetup
  \/ ClientResolve
  \/ ClientScenario

SpecRunner == RunnerInit /\ [][RunnerNext]_vars

(***************************************************************************)
(* Properties of the test-mode run.                                         *)
(***************************************************************************)
\* runAllConformanceTests has returned
Returned == pc \in {"outputs", "upload", "badge", "badge_sleep", "done"}

\* the run is over: it completed, core.setFailed was called, or the process died
RunOver == pc \in {"done", "failed", "crashed"}

Selected(kind) ==
  IF kind = "server" THEN testType \in {"server", "both"}
  ELSE testType \in {"client", "both"}

\* the targets the test type selects, in the order of the two loops
SelectedTargets ==
  (IF Selected("server") THEN [i \in 1..Len(servers) |-> <<"server", i>>] ELSE <<>>)
    \o (IF Selected("client") THEN [i \in 1..Len(clients) |-> <<"client", i>>] ELSE <<>>)

\* the place of a selected target in SelectedTargets
TargetIndex(kind, i) ==
  IF kind = "server" THEN i
  ELSE (IF Selected("server") THEN Len(servers) ELSE 0) + i

\* the log holds a call made for the target
Processed(kind, i) ==
  \E e \in 1..Len(log) :
    log[e].kind = kind /\ log[e].i = i
      /\ log[e].op \in {"setup", "start", "check", "list", "scenario"}

\* every target whose processing threw has the all-zero entry with the error text
ThrownTargetsHaveFallback ==
  \A e \in 1..Len(log) :
    log[e].op = "error" =>
      results[TargetIndex(log[e].kind, log[e].i)]
        = FailedResult(TargetName(log[e].kind, log[e].i), log[e].j)

NumScenarios(i) ==
  IF Len(clients[i].scenarios) > 0 THEN Len(clients[i].scenarios)
  ELSE LET e == CHOOSE e \in 1..Len(log) :
                  log[e].op = "list" /\ log[e].i = i /\ log[e].ok
       IN  log[e].j

\* client i is inside its scenario loop
InLoop(i) == pc = "client_scenario" /\ cur = i

\* the counters and the tests map of client i: those of its scenario loop
\* while it runs, those of its result afterwards
Tally(i) == IF InLoop(i) THEN loop ELSE results[TargetIndex("client", i)]

ThrownScenarios(i) ==
  { e \in 1..Len(log) : log[e].op = "scenario" /\ log[e].i = i /\ ~log[e].ok }

\* a scenario whose checker invocation threw is counted as failed, its entry
\* in the tests map is false unless a later scenario of the same name
\* overwrote it, and the later scenarios of the client are invoked
ScenarioErrorsIsolated ==
  \A e \in 1..Len(log) :
    (log[e].op = "scenario" /\ ~log[e].ok) =>
      LET i == log[e].i
          j == log[e].j
      IN  /\ Tally(i).failed >= Cardinality(ThrownScenarios(i))
          /\ (\A f \in (e + 1)..Len(log) :
                ~(log[f].op = "scenario" /\ log[f].i = i /\ log[f].name = log[e].name))
               => Tally(i).tests[log[e].name] = FALSE
          /\ IF InLoop(i) THEN sub = j + 1
             ELSE \A k \in (j + 1)..NumScenarios(i) :
                    \E f \in (e + 1)..Len(log) :
                      log[f].op = "scenario" /\ log[f].i = i /\ log[f].j = k

\* a call made for a target failed
TargetFaults ==
  { e \in 1..Len(log) :
      log[e].op \in {"setup", "start", "check", "list", "scenario"} /\ ~log[e].ok }

\* when the run is over, every selected target that comes after a target in
\* which a call failed was processed
TargetErrorsIsolated ==
  \A e \in TargetFaults :
    RunOver =>
      \A k \in (TargetIndex(log[e].kind, log[e].i) + 1)..Len(SelectedTargets) :
        Processed(SelectedTargets[k][1], SelectedTargets[k][2])

\* C2 (as stated): an error thrown by the checker invocation of one scenario is
\* caught, the scenario is recorded as failed and every later scenario of the
\* client is still invoked; an error thrown while one target is processed
\* (setup, start or checker) never prevents a later target from being processed.
C2_ErrorsNeverAbort == ScenarioErrorsIsolated /\ TargetErrorsIsolated

\* the start of the server process failed by an error the runner does not see
StartCrashed == \E e \in 1..Len(log) : log[e].op = "start" /\ log[e].j = "crash"

\* C2, second reading: the property of C2 in the runs in which no server start
\* ends the process of the action
C2_ErrorsNeverAbortUnlessCrash == ~StartCrashed => C2_ErrorsNeverAbort

\* C2: the run of a client with two scenarios is over, and the checker
\* invocation of its first scenario threw
C2_Witness ==
  /\ pc = "done"
  /\ \E e \in 1..Len(log) :
       log[e].op = "scenario" /\ ~log[e].ok /\ log[e].j = 1
         /\ NumScenarios(log[e].i) = 2

\* C4 (as stated): when the start of a server's process raises an error, the
\* run is not aborted, the checker is still invoked for that server, and the
\* server's result is the parse of the checker's output.
C4_StartFailureStillChecks ==
  \A e \in 1..Len(log) :
    (log[e].op = "start" /\ ~log[e].ok) =>
      LET i == log[e].i
      IN  /\ pc \notin {"failed", "crashed"}
          /\ \/ pc \in {"server_settle", "server_check"} /\ cur = i
             \/ /\ \E f \in (e + 1)..Len(log) : log[f].op = "check" /\ log[f].i = i
                /\ Len(results) >= i
                /\ results[i].rawOutput # ErrorText("start")

\* C4: the start of a server's process threw
C4_Witness == \E e \in 1..Len(log) : log[e].op = "start" /\ log[e].j = "throws"

\* the entry of results for client i, once the client was processed
ClientResult(i) == results[TargetIndex("client", i)]

\* C11 (as stated): for a client without a command, client testing is skipped:
\* a warning is logged (an error, when the processing of the client threw), the
\* checker is invoked for no scenario, and the result of the client is empty
\* (total = 0, no tests).
C11_NoCommandSkipsClient ==
  \A i \in 1..Len(clients) :
    clients[i].command = None =>
      /\ \A e \in 1..Len(log) : ~(log[e].op = "scenario" /\ log[e].i = i)
      /\ (Returned /\ Selected("client")) =>
           /\ ClientResult(i).total = 0
           /\ ClientResult(i).tests = EmptyTests
           /\ \E e \in 1..Len(log) :
                log[e].op \in {"warning", "error"} /\ log[e].kind = "client"
                  /\ log[e].i = i

\* C11: the run is over for a client without a command whose scenarios were
\* resolved to a non-empty set
C11_Witness ==
  /\ Returned
  /\ \E i \in 1..Len(clients) :
       /\ clients[i].command = None
       /\ \E e \in 1..Len(log) : log[e].op = "scenario" /\ log[e].i = i

\* the checker invocations made for client i, in the order of the log
ScenarioCalls(i) == SelectSeq(log, LAMBDA ev : ev.op = "scenario" /\ ev.i = i)

\* the list subcommand was invoked for client i
Listed(i) == \E e \in 1..Len(log) : log[e].op = "list" /\ log[e].i = i

\* the scenario set of client i: its scenarios input when that is not empty,
\* else what the list subcommand returned for it
Resolved(i) ==
  IF Len(clients[i].scenarios) > 0 THEN clients[i].scenarios
  ELSE IF \E e \in 1..Len(log) : log[e].op = "list" /\ log[e].i = i /\ log[e].ok
  THEN LET e == CHOOSE e \in 1..Len(log) :
                  log[e].op = "list" /\ log[e].i = i /\ log[e].ok
       IN  log[e].found
  ELSE <<>>

\* C12: a client with a non-empty scenarios input runs that list and the list
\* subcommand is not invoked for it, any other client runs what the list
\* subcommand returned; the checker is invoked once per scenario of that set,
\* in the order of the set (the k-th invocation is for its k-th scenario, and
\* all of them are made once the loop has ended), and every invocation adds
\* one to exactly one of passed and failed.
C12_OncePerResolvedScenario ==
  \A i \in 1..Len(clients) :
    LET calls == ScenarioCalls(i)
        set == Resolved(i)
    IN  /\ Len(clients[i].scenarios) > 0 => ~Listed(i)
        /\ Len(calls) <= Len(set)
        /\ \A k \in 1..Len(calls) : calls[k].j = k /\ calls[k].name = set[k]
        /\ InLoop(i) =>
             Len(calls) = sub - 1 /\ loop.passed + loop.failed = Len(calls)
        /\ (~InLoop(i) /\ Len(calls) > 0) =>
             /\ Len(calls) = Len(set)
             /\ ClientResult(i).passed + ClientResult(i).failed = Len(calls)

\* C12: a client without a scenarios input has run the two scenarios that the
\* list subcommand returned
C12_Witness ==
  /\ Returned
  /\ \E i \in 1..Len(clients) :
       /\ clients[i].scenarios = <<>>
       /\ Len(ScenarioCalls(i)) = 2
       /\ Len(Resolved(i)) = 2

\* C12: a client with a scenarios input has run its two scenarios
C12_WitnessExplicit ==
  /\ Returned
  /\ \E i \in 1..Len(clients) :
       /\ Len(clients[i].scenarios) = 2
       /\ Len(ScenarioCalls(i)) = 2

\* the text captured from invocation k of calls holds the marker
HasPassedMarker(calls, k) == TextIncludes(calls[k].text, PassedMarker)

\* the last invocation in calls made for the scenario called name
LastCall(calls, name) ==
  CHOOSE k \in 1..Len(calls) :
    /\ calls[k].name = name
    /\ \A h \in (k + 1)..Len(calls) : calls[h].name # name

\* C13: a client scenario is recorded as passed exactly when the text captured
\* from its own invocation holds the marker OVERALL: PASSED, and as failed
\* otherwise (no marker, empty text, invocation error), whatever else the text
\* holds and whatever the other scenarios printed: passed counts the
\* invocations with the marker, failed the others, and the tests map holds for
\* every scenario name the verdict of the (last) invocation made for it.
C13_PassedIffOwnMarker ==
  \A i \in 1..Len(clients) :
    LET calls == ScenarioCalls(i)
        marked == { k \in 1..Len(calls) : HasPassedMarker(calls, k) }
    IN  /\ \A k \in 1..Len(calls) : ~calls[k].ok => calls[k].text = EmptyText
        /\ (InLoop(i) \/ Len(calls) > 0) =>
             /\ Tally(i).passed = Cardinality(marked)
             /\ Tally(i).failed = Len(calls) - Cardinality(marked)
             /\ DOMAIN Tally(i).tests = { calls[k].name : k \in 1..Len(calls) }
             /\ \A name \in DOMAIN Tally(i).tests :
                  Tally(i).tests[name] = HasPassedMarker(calls, LastCall(calls, name))

\* C13: a client has run two scenarios of different names; the text of the
\* first held a fail line and the marker, the text of the second a pass line
\* and no marker
C13_Witness ==
  /\ Returned
  /\ \E i \in 1..Len(clients) :
       LET calls == ScenarioCalls(i)
       IN  /\ Len(calls) = 2
           /\ calls[1].name # calls[2].name
           /\ HasPassedMarker(calls, 1) /\ TextIncludes(calls[1].text, CrossGlyph)
           /\ ~HasPassedMarker(calls, 2) /\ TextIncludes(calls[2].text, CheckGlyph)
           /\ ClientResult(i).tests[calls[1].name] = TRUE
           /\ ClientResult(i).tests[calls[2].name] = FALSE

\* the place of the target of a log event in the order of the two loops
TargetRank(ev) == IF ev.kind = "server" THEN ev.i ELSE Len(servers) + ev.i

\* the calls that run the checker
CheckerCalls == {"check", "list", "scenario"}

DelayBetween(e, f) == \E g \in (e + 1)..(f - 1) : log[g].op = "sleep"

\* C25: the badge updates are requested one at a time in the order of the
\* results, the delay elapses between every two consecutive requests, whether
\* the earlier one succeeded or failed, and no delay follows the last update.
C25_DelayBetweenBadgeUpdates ==
  \A f \in 1..Len(log) :
    /\ log[f].op = "badge" =>
         /\ log[f].i = Cardinality({ e \in 1..f : log[e].op = "badge" })
         /\ \A e \in 1..(f - 1) :
              (log[e].op = "badge" /\ log[e].i + 1 = log[f].i) => DelayBetween(e, f)
    /\ log[f].op = "sleep" => log[f].i < Len(results)

\* C25 as the code has it: the delay elapses after a request that succeeded
\* and is not the last, and after no other
C25_DelayAfterSuccessOnly ==
  \A f \in 1..Len(log) :
    /\ log[f].op = "badge" =>
         /\ log[f].i = Cardinality({ e \in 1..f : log[e].op = "badge" })
         /\ \A e \in 1..(f - 1) :
              (log[e].op = "badge" /\ log[e].i + 1 = log[f].i) =>
                (DelayBetween(e, f) <=> log[e].ok)
    /\ log[f].op = "sleep" =>
         /\ log[f].i < Len(results)
         /\ log[f - 1].op = "badge" /\ log[f - 1].ok /\ log[f - 1].i = log[f].i

\* C25: the update of the first badge failed and the update of the second
\* badge was requested
C25_Witness ==
  \E e, f \in 1..Len(log) :
    /\ log[e].op = "badge" /\ ~log[e].ok /\ log[e].i = 1
    /\ log[f].op = "badge" /\ log[f].i = 2

\* the setup commands of server i that have completed before log event f
SetupDone(i, f) ==
  { e \in 1..(f - 1) :
      log[e].op = "setup" /\ log[e].kind = "server" /\ log[e].i = i /\ log[e].ok }

\* a step of server i was made before log event f
StepBefore(op, i, f) ==
  \E e \in 1..(f - 1) : log[e].op = op /\ log[e].kind = "server" /\ log[e].i = i

\* C28: for every server the setup commands complete in the configured
\* order, then the process is started, then the settle delay elapses, and
\* then the checker is invoked: the checker is invoked right after the settle
\* delay, which follows the start, which follows the last setup command, and
\* after a setup command that failed the server is neither started nor
\* checked.
C28_SetupStartSettleCheck ==
  \A f \in 1..Len(log) :
    log[f].kind = "server" =>
      LET i == log[f].i
      IN  /\ log[f].op = "setup" => log[f].j = Cardinality(SetupDone(i, f)) + 1
          /\ log[f].op = "start" =>
               /\ Cardinality(SetupDone(i, f)) = servers[i].setup
               /\ ~StepBefore("start", i, f)
          /\ log[f].op = "settle" =>
               log[f - 1].op = "start" /\ log[f - 1].i = i /\ log[f - 1].ok
          /\ log[f].op = "check" =>
               /\ log[f - 1].op = "settle" /\ log[f - 1].i = i
               /\ ~StepBefore("check", i, f)
          /\ (log[f].op = "setup" /\ ~log[f].ok) =>
               \A g \in 1..Len(log) :
                 (log[g].kind = "server" /\ log[g].i = i) =>
                   log[g].op \notin {"start", "settle", "check"}

\* C28: the checker was invoked for a server with a setup command, and a
\* setup command of another server failed
C28_Witness ==
  /\ \E f \in 1..Len(log) :
       log[f].op = "check" /\ servers[log[f].i].setup > 0
  /\ \E f \in 1..Len(log) : log[f].op = "setup" /\ ~log[f].ok

\* C29: when a client has no scenarios input and the list subcommand shows no
\* client section or an empty one, listClientScenarios returns the empty
\* sequence without an error; runClientConformanceTest then logs a warning,
\* invokes the checker for no scenario of the client and returns a result
\* with total = 0, and the run is not marked failed.
C29_EmptyScenarioSet ==
  /\ listClientScenarios(EmptyText) = <<>>
  /\ listClientScenarios(<< <<ClientHeader>>, <<>>, <<ServerHeader>>, Entry("sc3") >>) = <<>>
  /\ \A e \in 1..Len(log) :
       (log[e].op = "list" /\ log[e].ok /\ log[e].found = <<>>) =>
         LET i == log[e].i
             result == results[TargetIndex("client", i)]
         IN  /\ clients[i].scenarios = <<>>
             /\ e < Len(log)
             /\ log[e + 1].op = "warning" /\ log[e + 1].kind = "client"
             /\ log[e + 1].i = i
             /\ \A f \in 1..Len(log) : ~(log[f].op = "scenario" /\ log[f].i = i)
             /\ result.serverName = clients[i].name
             /\ result.total = 0 /\ result.passed = 0 /\ result.failed = 0
             /\ result.rate = 0 /\ result.tests = EmptyTests
             /\ ~runFailed /\ pc # "failed"

\* C29: the list subcommand showed no client scenario for a client without a
\* scenarios input, and the run is over
C29_Witness ==
  /\ pc = "done"
  /\ \E e \in 1..Len(log) : log[e].op = "list" /\ log[e].ok /\ log[e].found = <<>>

\* the processing of server i has ended before log event f: its checker was
\* invoked, or one of its steps threw
ServerDone(i, f) ==
  \E e \in 1..(f - 1) :
    /\ log[e].kind = "server" /\ log[e].i = i
    /\ log[e].op = "check" \/ (log[e].op \in {"setup", "start"} /\ ~log[e].ok)

\* C30: in 'both' mode the servers are tested and then the clients: when the
\* first call for a client is made every server has been processed to its
\* end and no call for a server follows, and the results returned are those
\* of the servers in the configured order followed by those of the clients in
\* the configured order.
C30_ServersThenClients ==
  testType = "both" =>
    /\ \A f \in 1..Len(log) :
         log[f].kind = "client" =>
           /\ \A i \in 1..Len(servers) : ServerDone(i, f)
           /\ \A g \in (f + 1)..Len(log) : log[g].kind # "server"
    /\ Returned =>
         /\ Len(results) = Len(servers) + Len(clients)
         /\ \A i \in 1..Len(servers) : results[i].serverName = servers[i].name
         /\ \A i \in 1..Len(clients) :
              results[Len(servers) + i].serverName = clients[i].name

\* C30: a run in 'both' mode has returned the results of a server and a
\* client
C30_Witness ==
  /\ testType = "both"
  /\ Returned
  /\ Len(servers) = 1
  /\ Len(clients) = 1
  /\ \E f \in 1..Len(log) : log[f].op = "scenario"

\* the calls the engine makes on processes and collaborators
EngineCalls ==
  {"setup", "start", "settle", "check", "list", "scenario", "upload", "badge",
   "sleep", "warning", "error"}

\* C23: the engine holds nothing of a target process once it is started (no
\* handle, no PID) and no step of a run, whatever the checker did, is a kill
\* or a stop of a process: every call in the log is one of the calls above.
C23_FireAndForget ==
  \A e \in 1..Len(log) :
    /\ log[e].op \in EngineCalls
    /\ log[e].op = "start" => log[e].handle = None

\* C23: a server was started and runs, its checker invocation failed, and the
\* run is over
C23_Witness ==
  /\ RunOver
  /\ \E e \in 1..Len(log) : log[e].op = "start" /\ log[e].j = "running"
  /\ \E e \in 1..Len(log) : log[e].op = "check" /\ ~log[e].ok

\* C5: when test mode is run with no servers and no clients, the run is marked
\* failed and nothing was executed before: no setup command, process start,
\* checker invocation, artifact upload or badge update, no result and no output.
C5_NoTargetsFailsFirst ==
  (Len(servers) = 0 /\ Len(clients) = 0 /\ pc # "start") =>
    /\ pc = "failed"
    /\ runFailed
    /\ log = <<>>
    /\ results = <<>>
    /\ ~outputs.set

\* C5: a run without targets has failed
C5_Witness == Len(servers) = 0 /\ Len(clients) = 0 /\ pc = "failed" /\ runFailed

\* C7: a failure to write the badge of one result is followed by a warning,
\* does not mark the run failed, and when the run is done the badge update of
\* every later result was attempted.
C7_BadgeFailuresIsolated ==
  \A e \in 1..Len(log) :
    (log[e].op = "badge" /\ ~log[e].ok) =>
      /\ ~runFailed
      /\ pc # "failed"
      /\ e < Len(log) /\ log[e + 1].op = "warning" /\ log[e + 1].i = log[e].i
      /\ pc = "done" =>
           \A k \in (log[e].i + 1)..Len(results) :
             \E f \in (e + 1)..Len(log) : log[f].op = "badge" /\ log[f].i = k

\* C7: the run is done, the badge of the first of two results failed
C7_Witness ==
  /\ pc = "done"
  /\ Len(results) = 2
  /\ \E e \in 1..Len(log) : log[e].op = "badge" /\ ~log[e].ok /\ log[e].i = 1

(***************************************************************************)
(* The parser on its own: a text is drawn, one of the two line-scan parsers *)
(* is applied to it.  The texts are all texts of up to MaxLines lines over  *)
(* SampleLines, and the reports of np passed and nf failed tests for        *)
(* np, nf up to MaxCount.                                                   *)
(***************************************************************************)
MaxLines == 2
MaxCount == 40

SampleLines ==
  { <<>>,
    <<"a">>,
    PassLine(<<"a">>),
    PassLine(<<"a", Colon, Space, "b">>),
    PassLine(<<"b">>),
    FailLine(<<"a">>),
    FailLine(<<"b", Colon, Space, "a">>),
    <<CheckGlyph>>,
    <<CrossGlyph, Space>>,
    <<CheckGlyph, Space, Space>>,
    <<CrossGlyph, Space, "a", Space, CheckGlyph, Space, "b">>,
    <<Space, Space, CheckGlyph, Space, Space, "a", Space, Colon>> }

RECURSIVE TextsUpTo(_)
TextsUpTo(n) ==
  IF n = 0 THEN {<<>>}
  ELSE LET shorter == TextsUpTo(n - 1)
       IN  shorter \cup { Append(t, l) : t \in { u \in shorter : Len(u) = n - 1 },
                                          l \in SampleLines }

SmallTexts == TextsUpTo(MaxLines) \ {<<>>}

Report(np, nf) ==
  [i \in 1..(np + nf) |-> IF i <= np THEN PassLine(<<"a", Colon, Space, "b">>)
                                     ELSE FailLine(<<"b">>)] \o EmptyText

Reports == { Report(np, nf) : np \in 0..MaxCount, nf \in 0..MaxCount }

ParserName == "srv"

ParseInit ==
  /\ testType = "server"
  /\ servers = <<>>
  /\ clients = <<>>
  /\ badgeOn = FALSE
  /\ pc = "idle"
  /\ cur = 0
  /\ sub = 0
  /\ results = <<>>
  /\ loop = NoLoop
  /\ outputs = NoOutputs
  /\ runFailed = FALSE
  /\ log = <<>>
  /\ faults = 0
  /\ pText \in SmallTexts \cup Reports
  /\ pResult = NoResult
  /\ pParser = None
  /\ pAgain = NoResult
  /\ fIn = NoCall
  /\ fOut = NoValue
  /\ cin = NoInputs
  /\ comments = <<>>
  /\ before = <<>>
  /\ modes = <<>>
  /\ baselines = <<>>

ParseOutput ==
  /\ pParser = None
  /\ pResult' = parseConformanceOutput(ParserName, pText)
  /\ pParser' = "parseConformanceOutput"
  /\ UNCHANGED <<pText, pAgain, callVars, testVars, commentVars>>

ParseOldFile ==
  /\ pParser = None
  /\ pResult' = parseOldResultsFile(pText, ParserName)
  /\ pParser' = "parseOldResultsFile"
  /\ UNCHANGED <<pText, pAgain, callVars, testVars, commentVars>>

(* a second call of the same parser with the same arguments *)
ParseAgain ==
  /\ pParser # None
  /\ pAgain = NoResult
  /\ pAgain' = IF pParser = "parseConformanceOutput"
               THEN parseConformanceOutput(ParserName, pText)
               ELSE parseOldResultsFile(pText, ParserName)
  /\ UNCHANGED <<pText, pResult, pParser, callVars, testVars, commentVars>>

ParseNext == ParseOutput \/ ParseOldFile \/ ParseAgain

SpecParse == ParseInit /\ [][ParseNext]_vars

\* C3 (as stated): every result the parsers construct has total = passed +
\* failed, and rate = round(100 * passed / total) when total > 0, rate = 0 when
\* total = 0; hence 0 <= rate <= 100.
C3_RateIsRoundedPercentage ==
  pResult # NoResult =>
    /\ pResult.total = pResult.passed + pResult.failed
    /\ pResult.rate = IF pResult.total = 0 THEN 0
                      ELSE RoundPercent(pResult.passed, pResult.total)
    /\ pResult.rate >= 0 /\ pResult.rate <= 100

\* C3, second reading: the rate is an integer nearest to 100 * passed / total,
\* whichever way a tie is broken
C3_RateIsNearestPercentage ==
  pResult # NoResult =>
    /\ pResult.total = pResult.passed + pResult.failed
    /\ LET d == 100 * pResult.passed - pResult.rate * pResult.total
       IN  2 * d <= pResult.total /\ -2 * d <= pResult.total
    /\ pResult.rate >= 0 /\ pResult.rate <= 100

\* C3: a report of 23 passed and 17 failed tests was parsed
C3_Witness == pResult # NoResult /\ pResult.passed = 23 /\ pResult.failed = 17

\* what one line records: the trimmed name and the verdict of a line that
\* matches the pass pattern or, failing that, the fail pattern
LineRecord(line) ==
  LET passMatch == MatchGlyph(line, CheckGlyph)
      failMatch == MatchGlyph(line, CrossGlyph)
  IN  IF passMatch.matched
      THEN [hit |-> TRUE, name |-> Trim(passMatch.name), value |-> TRUE]
      ELSE IF failMatch.matched
      THEN [hit |-> TRUE, name |-> Trim(failMatch.name), value |-> FALSE]
      ELSE [hit |-> FALSE]

\* the lines of the parsed text that record a test
HitLines == { l \in 1..Len(pText) : LineRecord(pText[l]).hit }

\* the last line of the parsed text that records the test called name
LastHit(name) ==
  CHOOSE l \in HitLines :
    /\ LineRecord(pText[l]).name = name
    /\ \A h \in HitLines : LineRecord(pText[h]).name = name => h <= l

\* the tests map holds one entry per recorded name, with the verdict of the
\* last line that records the name
LastOccurrenceWins ==
  /\ DOMAIN pResult.tests = { LineRecord(pText[l]).name : l \in HitLines }
  /\ \A name \in DOMAIN pResult.tests :
       pResult.tests[name] = LineRecord(pText[LastHit(name)]).value

\* C14 (as stated): when several lines record the same test name, the tests
\* map holds the verdict of the last of them, and the earlier ones are not
\* accumulated in the result: passed and failed count the names that the map
\* records as passed and as failed.
C14_LastOccurrenceOnly ==
  pResult # NoResult =>
    /\ LastOccurrenceWins
    /\ pResult.passed
         = Cardinality({ name \in DOMAIN pResult.tests : pResult.tests[name] })
    /\ pResult.failed
         = Cardinality({ name \in DOMAIN pResult.tests : ~pResult.tests[name] })

\* C14, the tests map alone: it holds the verdict of the last occurrence of
\* every name, while passed and failed count every recording line
C14_LastOccurrenceWinsInTests ==
  pResult # NoResult =>
    /\ LastOccurrenceWins
    /\ pResult.passed
         = Cardinality({ l \in HitLines : LineRecord(pText[l]).value })
    /\ pResult.failed
         = Cardinality({ l \in HitLines : ~LineRecord(pText[l]).value })

\* C14: a text whose first line records a test as passed and whose second line
\* records the same test as failed was parsed
C14_Witness ==
  /\ pResult # NoResult
  /\ Len(pText) = 2
  /\ HitLines = {1, 2}
  /\ LineRecord(pText[1]).name = LineRecord(pText[2]).name
  /\ LineRecord(pText[1]).value /\ ~LineRecord(pText[2]).value

\* the parser that produced pResult, applied to text
Reparse(text) ==
  IF pParser = "parseConformanceOutput" THEN parseConformanceOutput(ParserName, text)
  ELSE parseOldResultsFile(text, ParserName)

\* C15: a line that matches neither the pass nor the fail pattern changes
\* nothing: the tests map and the counters are those of the text without such
\* lines, passed + failed is the number of matching lines, and a text without
\* a matching line (the empty text among them) parses to passed = 0,
\* failed = 0, total = 0, rate = 0 and an empty tests map.
C15_UnmatchedLinesIgnored ==
  pResult # NoResult =>
    LET r == Reparse(SelectSeq(pText, LAMBDA line : LineRecord(line).hit))
    IN  /\ pResult.tests = r.tests
        /\ pResult.passed = r.passed /\ pResult.failed = r.failed
        /\ pResult.total = r.total /\ pResult.rate = r.rate
        /\ pResult.passed + pResult.failed = Cardinality(HitLines)
        /\ HitLines = {} =>
             /\ pResult.tests = EmptyTests
             /\ pResult.passed = 0 /\ pResult.failed = 0
             /\ pResult.total = 0 /\ pResult.rate = 0

\* C15: a text of a line that matches neither pattern and a line that matches
\* one was parsed
C15_Witness ==
  /\ pResult # NoResult
  /\ Len(pText) = 2
  /\ pText[1] # <<>>
  /\ HitLines = {2}

\* C15: the empty text was parsed
C15_WitnessEmpty == pResult # NoResult /\ pText = EmptyText

\* the idle values of the variables that the parsers do not own
ParserFrame ==
  /\ pc = "idle" /\ cur = 0 /\ sub = 0
  /\ results = <<>> /\ loop = NoLoop /\ outputs = NoOutputs
  /\ ~runFailed /\ log = <<>> /\ faults = 0
  /\ comments = <<>> /\ baselines = <<>>
  /\ fIn = NoCall /\ fOut = NoValue

Undecodable == "undecodable"

OldArtifactNames == <<"python", "typescript">>

\* the result a *-results.json file of the new format decodes to
StoredResult(name) == parseConformanceOutput(name, <<PassLine(<<"a">>)>>)

\* the text file of an old-format artifact
OldContent == <<PassLine(<<"a">>), FailLine(<<"b">>)>>

BaselineFound ==
  { [runs |-> "found", artifacts |-> "ok", new |-> n, files |-> f, old |-> o] :
      n \in {"absent", "throws", "ok"},
      f \in { <<Undecodable>>, <<Undecodable, "python">> },
      o \in { <<"absent", "absent">>, <<"throws", "ok">>, <<"ok", "absent">> } }

\* the files of an artifact that is absent or whose download throws are never
\* read, and neither are the old-format artifacts after such a throw
BaselineEnvs ==
  { [runs |-> "throws"], [runs |-> "none"], [runs |-> "found", artifacts |-> "throws"] }
    \cup { e \in BaselineFound :
             \/ e.new = "ok"
             \/ e.new = "absent" /\ e.files = <<Undecodable>>
             \/ e.new = "throws" /\ e.files = <<Undecodable>>
                  /\ e.old = <<"absent", "absent">> }

\* for (const file of files): JSON.parse in its try/catch
RECURSIVE LoadFiles(_, _, _)
LoadFiles(found, files, i) ==
  IF i > Len(files) THEN found
  ELSE IF files[i] = Undecodable THEN LoadFiles(found, files, i + 1)
  ELSE LoadFiles((files[i] :> StoredResult(files[i])) @@ found, files, i + 1)

\* for (const oldName of oldArtifactNames), the download in its try/catch
RECURSIVE LoadOld(_, _, _)
LoadOld(found, old, i) ==
  IF i > Len(OldArtifactNames) THEN found
  ELSE LET serverName == OldArtifactNames[i]
       IN  IF serverName \in DOMAIN found THEN LoadOld(found, old, i + 1)
           ELSE IF old[i] = "ok"
           THEN LoadOld((serverName :> parseOldResultsFile(OldContent, serverName))
                          @@ found, old, i + 1)
           ELSE LoadOld(found, old, i + 1)

\* the function without its outer try/catch: what it throws or returns
BaselineBody(env) ==
  IF env.runs = "throws" THEN [thrown |-> TRUE, value |-> NoResult]
  ELSE IF env.runs = "none" THEN [thrown |-> FALSE, value |-> NoResult]
  ELSE IF env.artifacts = "throws" THEN [thrown |-> TRUE, value |-> NoResult]
  ELSE IF env.new = "throws" THEN [thrown |-> TRUE, value |-> NoResult]
  ELSE LET new == IF env.new = "ok" THEN LoadFiles(<<>>, env.files, 1) ELSE <<>>
           all == LoadOld(new, env.old, 1)
       IN  [thrown |-> FALSE, value |-> IF DOMAIN all = {} THEN NoResult ELSE all]

\* an outer try/catch that logs the error and throws it again
RethrowBaseline(body) == [raised |-> body.thrown, value |-> body.value]

\* the outer try/catch: core.warning, return null
CatchBaseline(body) ==
  [raised |-> FALSE, value |-> IF body.thrown THEN NoResult ELSE body.value]

fetchBaselineResults(env) == CatchBaseline(BaselineBody(env))

(***************************************************************************)
(* Comment mode: runCommentMode, postOrUpdateComment.  A pull request gets  *)
(* up to MaxRuns runs of the action, one after the other; each run starts   *)
(* with a fresh log.  A comment is the lines of its body and the number of  *)
(* the run that wrote it (0 for a comment of somebody else).                *)
(***************************************************************************)
MaxRuns == 2
MaxBranches == 1

COMMENT_MARKER == "<!-- mcp-conformance-results -->"

\* issues.listComments is called once, without per_page and without following
\* the pages: it returns the oldest comments, up to one page of them (30 at
\* GitHub, PageSize here)
PageSize == 2

FirstPage(list) == SubSeq(list, 1, IF Len(list) < PageSize THEN Len(list) ELSE PageSize)

CommentModes == {"create", "update", "none"}

\* the downloaded conformance-results directory: missing, without
\* pr-metadata.json, with metadata that is not JSON, with metadata without a
\* pr_number, without any *-results.json, or complete
FileStates == {"no_dir", "no_metadata", "bad_json", "not_pr", "no_results", "ok"}

CommentInputs ==
  [token : BOOLEAN, commentMode : CommentModes, files : FileStates,
   include : BOOLEAN, branches : 0..MaxBranches]

ForeignComment == [lines |-> <<"text">>, run |-> 0]

\* the body starts with the marker line
generateCommentBody(run) == [lines |-> <<COMMENT_MARKER, "results">>, run |-> run]

\* comment.body?.includes(COMMENT_MARKER)
HasMarker(comment) == Includes(comment.lines, COMMENT_MARKER)

CommentInit ==
  /\ testType = "server"
  /\ servers = <<>>
  /\ clients = <<>>
  /\ badgeOn = FALSE
  /\ pc = "comment_wait"
  /\ cur = 0
  /\ sub = 0
  /\ results = <<>>
  /\ loop = NoLoop
  /\ outputs = NoOutputs
  /\ runFailed = FALSE
  /\ log = <<>>
  /\ faults = 0
  /\ pText = EmptyText
  /\ pResult = NoResult
  /\ pParser = None
  /\ pAgain = NoResult
  /\ fIn = NoCall
  /\ fOut = NoValue
  /\ cin = NoInputs
  /\ comments \in { [i \in 1..n |-> ForeignComment] : n \in 0..PageSize }
  /\ before = <<>>
  /\ modes = <<>>
  /\ baselines = <<>>

\* the first await of postOrUpdateComment
EnterPost(mode) ==
  IF mode = "update" THEN Position("list", 0, 0) ELSE Position("create", 0, 0)

\* if (inputs.includeBaselineComparison) for (const branch of inputs.baselineBranches)
EnterBaselines(in) ==
  IF in.include /\ in.branches > 0 THEN Position("fetch", 1, 0)
  ELSE EnterPost(in.commentMode)

\* the run returns or throws; run() turns a throw into core.setFailed
EndRun(failed) ==
  /\ Goto(Position("comment_wait", 0, 0))
  /\ runFailed' = failed

(* runCommentMode, up to the first await *)
RunCommentMode ==
  /\ pc = "comment_wait"
  /\ Len(modes) < MaxRuns
  /\ \E in \in CommentInputs :
       /\ cin' = in
       /\ modes' = Append(modes, in.commentMode)
       /\ before' = comments
       /\ baselines' = <<>>
       /\ log' = <<>>
       /\ faults' = 0
       /\ IF ~in.token THEN EndRun(TRUE)
          ELSE IF in.commentMode = "none" THEN EndRun(FALSE)
          ELSE IF in.files \in {"no_dir", "no_metadata", "bad_json"} THEN EndRun(TRUE)
          ELSE IF in.files = "not_pr" THEN EndRun(FALSE)
          ELSE IF in.files = "no_results" THEN EndRun(TRUE)
          ELSE Goto(EnterBaselines(in)) /\ runFailed' = FALSE
  /\ UNCHANGED <<config, pureVars, results, loop, outputs, comments>>

\* what fetchBaselineResults returns or raises, for every state of the history
BaselineOutcomes ==
  { [env |-> e, r |-> fetchBaselineResults(e)] : e \in BaselineEnvs }

(* runCommentMode: fetchBaselineResults for branch cur *)
FetchBaseline ==
  /\ pc = "fetch"
  /\ \E o \in BaselineOutcomes :
       /\ log' = Append(log, Event("fetch", "branch", cur, o.env, ~o.r.raised))
       /\ IF o.r.raised
          THEN /\ EndRun(TRUE)
               /\ UNCHANGED baselines
          ELSE /\ baselines' = IF o.r.value = NoResult THEN baselines
                               ELSE (cur :> o.r.value) @@ baselines
               /\ Goto(IF cur < cin.branches THEN Position("fetch", cur + 1, 0)
                       ELSE EnterPost(cin.commentMode))
               /\ UNCHANGED runFailed
  /\ UNCHANGED <<config, pureVars, results, loop, outputs, faults, cin, comments,
                 before, modes>>

\* comments.find(comment => comment.body?.includes(COMMENT_MARKER)): the id of
\* the oldest comment with the marker, 0 when there is none
FindExisting(list) ==
  LET hits == { i \in 1..Len(list) : HasMarker(list[i]) }
  IN  IF hits = {} THEN 0 ELSE CHOOSE i \in hits : \A j \in hits : i <= j

\* the try/catch around the search and the update: core.warning, and the
\* function goes on to create a comment
CatchFind(threw) == [escaped |-> FALSE, next |-> Position("create", 0, 0)]

(* postOrUpdateComment, mode update: issues.listComments *)
ListComments ==
  /\ pc = "list"
  /\ \/ /\ log' = Append(log, Event("list_comments", "pr", 0, 0, TRUE))
        /\ Goto(IF FindExisting(FirstPage(comments)) # 0
                THEN Position("update", 0, FindExisting(FirstPage(comments)))
                ELSE Position("create", 0, 0))
        /\ UNCHANGED faults
     \/ /\ CanThrow
        /\ faults' = faults + 1
        /\ log' = log \o <<Event("list_comments", "pr", 0, 0, FALSE),
                           Event("warning", "pr", 0, 0, FALSE)>>
        /\ Goto(CatchFind(TRUE).next)
  /\ UNCHANGED <<config, pureVars, results, loop, outputs, runFailed, commentVars>>

(* postOrUpdateComment, mode update: issues.updateComment *)
UpdateComment ==
  /\ pc = "update"
  /\ \/ /\ log' = Append(log, Event("update_comment", "pr", sub, 0, TRUE))
        /\ comments' = [comments EXCEPT ![sub] = generateCommentBody(Len(modes))]
        /\ EndRun(FALSE)
        /\ UNCHANGED faults
     \/ /\ CanThrow
        /\ faults' = faults + 1
        /\ log' = log \o <<Event("update_comment", "pr", sub, 0, FALSE),
                           Event("warning", "pr", 0, 0, FALSE)>>
        /\ Goto(CatchFind(TRUE).next)
        /\ UNCHANGED <<comments, runFailed>>
  /\ UNCHANGED <<config, pureVars, results, loop, outputs, cin, before, modes,
                 baselines>>

(* postOrUpdateComment: issues.createComment *)
CreateComment ==
  /\ pc = "create"
  /\ \/ /\ log' = Append(log, Event("create_comment", "pr", Len(comments) + 1, 0, TRUE))
        /\ comments' = Append(comments, generateCommentBody(Len(modes)))
        /\ EndRun(FALSE)
        /\ UNCHANGED faults
     \/ /\ CanThrow
        /\ faults' = faults + 1
        /\ log' = Append(log, Event("create_comment", "pr", 0, 0, FALSE))
        /\ EndRun(TRUE)
        /\ UNCHANGED comments
  /\ UNCHANGED <<config, pureVars, results, loop, outputs, cin, before, modes,
                 baselines>>

CommentNext ==
  \/ RunCommentMode
  \/ FetchBaseline
  \/ ListComments
  \/ UpdateComment
  \/ CreateComment

SpecComment == CommentInit /\ [][CommentNext]_vars

(***************************************************************************)
(* The runs of both modes under the assumption that every call that was    *)
(* made returns or throws: the run that is under way takes its next step.  *)
(* Nothing is assumed about the start of a further comment-mode run.  The   *)
(* badges are configured for the runs of test type server (the loop of      *)
(* updateAllBadges is over the results, whatever targets they are of), and  *)
(* the pull request has no comment before its first run.                    *)
(***************************************************************************)
LiveInit ==
  \/ TestInit /\ (badgeOn => testType = "server")
  \/ CommentInit /\ comments = <<>>

\* the continuations of the calls a comment-mode run awaits
CommentSteps == FetchBaseline \/ ListComments \/ UpdateComment \/ CreateComment

LiveNext == TestNext \/ CommentNext

SpecLive ==
  LiveInit /\ [][LiveNext]_vars /\ WF_vars(TestNext) /\ WF_vars(CommentSteps)

(***************************************************************************)
(* Properties of the comment-mode runs.                                     *)
(***************************************************************************)
\* a run on the pull request has ended and no other has started
RunEnded == pc = "comment_wait" /\ Len(modes) > 0

PostCalls == {"list_comments", "update_comment", "create_comment"}

\* postOrUpdateComment was called in the current run
PostCalled == \E e \in 1..Len(log) : log[e].op \in PostCalls

\* no collaborator call of the current run threw
NoCallThrew == \A e \in 1..Len(log) : log[e].op \in PostCalls => log[e].ok

\* C6 (as stated): when a call of the reporting collaborator throws during
\* postOrUpdateComment, the failure is logged as a warning and the run is not
\* marked failed.
C6_CommentFailureOnlyWarns ==
  \A e \in 1..Len(log) :
    (log[e].op \in PostCalls /\ ~log[e].ok) =>
      /\ ~runFailed
      /\ e < Len(log) /\ log[e + 1].op = "warning"

\* the history of the branch is one of the failure cases: no successful run,
\* or a history call that throws
BaselineFails(env) ==
  \/ env.runs \in {"throws", "none"}
  \/ env.artifacts = "throws"
  \/ env.new = "throws"

\* the server names for which the history of the branch holds a decodable result
DecodableNames(env) ==
  { env.files[i] : i \in { i \in 1..Len(env.files) :
                             env.new = "ok" /\ env.files[i] # Undecodable } }
    \cup { OldArtifactNames[i] : i \in { i \in 1..Len(OldArtifactNames) :
                                          env.old[i] = "ok" } }

\* the results the history of a branch can yield: a decoded file of the new
\* format or a parsed text file of the old format
HistoryResults ==
  { StoredResult(name) : name \in {"python", "typescript"} }
    \cup { parseOldResultsFile(OldContent, name) : name \in {"python", "typescript"} }

\* C8: fetchBaselineResults never raises to runCommentMode: when no successful
\* run exists, when a history call throws or when no artifact yields a result
\* it returns null (the branch gets no baseline); otherwise it returns results
\* only for servers whose history file could be decoded (an undecodable file
\* or a failed old-format download is skipped); and runCommentMode goes on
\* with the next branch or with posting the report.
C8_FetchNeverRaises ==
  \A e \in 1..Len(log) :
    log[e].op = "fetch" =>
      LET b == log[e].i
          env == log[e].j
      IN  /\ log[e].ok
          /\ IF BaselineFails(env) \/ DecodableNames(env) = {}
             THEN b \notin DOMAIN baselines
             ELSE /\ b \in DOMAIN baselines
                  /\ DOMAIN baselines[b] = DecodableNames(env)
                  /\ \A name \in DOMAIN baselines[b] :
                       /\ baselines[b][name] \in HistoryResults
                       /\ baselines[b][name].serverName = name
          /\ \/ e < Len(log)
             \/ pc = "fetch" /\ cur = b + 1
             \/ pc \in {"list", "create"}

\* C8: a run whose history call threw has posted its comment
C8_Witness ==
  /\ RunEnded
  /\ ~runFailed
  /\ \E e \in 1..Len(log) : log[e].op = "fetch" /\ log[e].j.runs = "throws"
  /\ \E e \in 1..Len(log) : log[e].op = "create_comment" /\ log[e].ok

\* C8: a run that skipped an undecodable file has kept the decodable one
C8_WitnessDecoded ==
  /\ RunEnded
  /\ \E e \in 1..Len(log) :
       /\ log[e].op = "fetch"
       /\ ~BaselineFails(log[e].j)
       /\ log[e].j.new = "ok"
       /\ log[e].j.files = <<Undecodable, "python">>
       /\ log[e].i \in DOMAIN baselines

\* C9 (as stated): in mode update, if a comment of the pull request holds the
\* marker, exactly that comment is updated and none is created, and if none
\* holds it exactly one comment is created; in mode create exactly one comment
\* is created and no existing one is modified; with mode none no comment is
\* written.
C9_CommentWrites ==
  RunEnded =>
    LET new == generateCommentBody(Len(modes))
        old == FindExisting(before)
    IN  /\ cin.commentMode = "none" => comments = before /\ ~PostCalled
        /\ (PostCalled /\ cin.commentMode = "update") =>
             comments = IF old # 0 THEN [before EXCEPT ![old] = new]
                        ELSE Append(before, new)
        /\ (PostCalled /\ cin.commentMode = "create") =>
             comments = Append(before, new)

\* C9, second reading: the property of C9 in the runs in which no call of the
\* reporting collaborator throws and the comments fit on one page
C9_CommentWritesWithoutErrors ==
  (NoCallThrew /\ Len(before) <= PageSize) => C9_CommentWrites

\* every run on the pull request so far was in mode update
OnlyUpdateRuns == \A k \in 1..Len(modes) : modes[k] = "update"

MarkerComments == { i \in 1..Len(comments) : HasMarker(comments[i]) }

\* C10 (as stated): after any sequence of runs in mode update on a pull request
\* that started without a marker comment, whatever the outcome of the list,
\* update and create calls, at most one comment holds the marker.
C10_AtMostOneMarkerComment == OnlyUpdateRuns => Cardinality(MarkerComments) <= 1

\* C10, second reading: the property of C10 as long as no call of the current
\* run threw, the comments fit on one page and the earlier runs left at most
\* one marker comment
C10_AtMostOneMarkerCommentWithoutErrors ==
  (OnlyUpdateRuns /\ NoCallThrew /\ Len(before) <= PageSize
     /\ Cardinality({ i \in 1..Len(before) : HasMarker(before[i]) }) <= 1)
    => Cardinality(MarkerComments) <= 1

\* C10: two runs in mode update have ended on a pull request that started with
\* a page of other comments, no call of the second run threw, and two comments
\* hold the marker
C10_Witness ==
  /\ RunEnded
  /\ OnlyUpdateRuns
  /\ Len(modes) = 2
  /\ Len(before) > PageSize
  /\ NoCallThrew
  /\ Cardinality(MarkerComments) = 2

\* C9: a run in mode update has ended without a thrown call on a pull request
\* that had a marker comment, and it created a comment
C9_Witness ==
  /\ RunEnded
  /\ cin.commentMode = "update"
  /\ NoCallThrew
  /\ FindExisting(before) # 0
  /\ Len(comments) = Len(before) + 1

\* C6: the creation of the comment threw and the run has ended
C6_Witness ==
  /\ RunEnded
  /\ \E e \in 1..Len(log) : log[e].op = "create_comment" /\ ~log[e].ok

(***************************************************************************)
(* The pure functions of the runner and of the comment generator, each      *)
(* called once on arguments drawn from bounded sets.                        *)
(*                                                                          *)
(* listClientScenarios.  A catalog is what the checker has to list: a       *)
(* client and a server section in either order, or one of them, or none,    *)
(* every entry with its maturity; ListingText is the listing the list       *)
(* subcommand prints for it, with or without a blank line after the headers *)
(* and after the sections.                                                  *)
(***************************************************************************)
MaxEntries == 2

Maturities == {"stable", "draft", "extension"}

RECURSIVE EntriesUpTo(_, _)
EntriesUpTo(ids, n) ==
  IF n = 0 THEN {<<>>}
  ELSE LET shorter == EntriesUpTo(ids, n - 1)
       IN  shorter \cup
             { Append(s, [id |-> id, maturity |-> m]) :
                 s \in { u \in shorter : Len(u) = n - 1 }, id \in ids, m \in Maturities }

SectionOrders == { <<>>, <<"client">>, <<"server">>, <<"client", "server">>,
                   <<"server", "client">> }

HasSection(order, category) == \E k \in 1..Len(order) : order[k] = category

Catalogs ==
  { c \in [order : SectionOrders,
           client : EntriesUpTo({"sc1", "sc2"}, MaxEntries),
           server : EntriesUpTo({"sc3"}, 1),
           lead : BOOLEAN, gap : BOOLEAN] :
      /\ HasSection(c.order, "client") \/ c.client = <<>>
      /\ HasSection(c.order, "server") \/ c.server = <<>>
      /\ c.order # <<>> \/ (~c.lead /\ ~c.gap) }

EntryLine(e) ==
  Entry(e.id) \o (IF e.maturity = "draft" THEN <<Space, DraftTag>>
                  ELSE IF e.maturity = "extension" THEN <<Space, ExtensionTag>>
                  ELSE <<>>)

SectionLines(c, category) ==
  LET entries == IF category = "client" THEN c.client ELSE c.server
      header == IF category = "client" THEN ClientHeader ELSE ServerHeader
  IN  << <<header, Colon>> >>
        \o (IF c.lead THEN << <<>> >> ELSE <<>>)
        \o [k \in 1..Len(entries) |-> EntryLine(entries[k])]
        \o (IF c.gap THEN << <<>> >> ELSE <<>>)

ListingText(c) ==
  << <<"title">> >>
    \o (IF Len(c.order) >= 1 THEN SectionLines(c, c.order[1]) ELSE <<>>)
    \o (IF Len(c.order) >= 2 THEN SectionLines(c, c.order[2]) ELSE <<>>)
    \o EmptyText

(***************************************************************************)
(* getComparisonIcon.  The icon is the glyph of the string the function     *)
(* returns, with the sign and the number printed after it.                  *)
(***************************************************************************)
MaxPassed == 2

NewIcon == [glyph |-> "new"]
DeltaIcon(glyph, sign, number) == [glyph |-> glyph, sign |-> sign, number |-> number]

\* a test for the absent baseline only
IsAbsent(baseline) == baseline = NoResult

\* !baseline || baseline.total === 0
IsNew(baseline) == baseline = NoResult \/ baseline.total = 0

getComparisonIcon(current, baseline) ==
  IF IsNew(baseline) THEN NewIcon
  ELSE LET diff == current.passed - baseline.passed
       IN  IF diff > 0 THEN DeltaIcon("green", "+", diff)
           ELSE IF diff < 0 THEN DeltaIcon("red", "-", -diff)
           ELSE DeltaIcon("white", "+", 0)

\* the counters of a result
Counters == { c \in [passed : 0..MaxPassed, total : 0..MaxPassed] : c.passed <= c.total }

IconCalls ==
  { [fn |-> "getComparisonIcon", current |-> c, baseline |-> b] :
      c \in Counters, b \in Counters \cup {NoResult} }

ListCalls == { [fn |-> "listClientScenarios", catalog |-> c] : c \in Catalogs }

(***************************************************************************)
(* generateDetailTable: one row per test name of the current results, one  *)
(* cell per target, each cell a glyph and an optional per-test flag.  The  *)
(* rows are kept as a function of the test name: the order of the rows,    *)
(* the header and the separator carry no flag and are left out.            *)
(***************************************************************************)
\* test names are strings of UTF-16 code units: "B", "a" and "ab"
NameB == <<66>>
NameA == <<97>>
NameAb == <<97, 98>>
TestNames == {NameA, NameB}
BranchNames == {"main", "canary"}
DashGlyph == "dash"

\* a value that is undefined in the source
Undefined == [defined |-> FALSE]
Defined(value) == [defined |-> TRUE, value |-> value]

\* the sequences without repetition of the elements of the set names
RECURSIVE OrdersOf(_)
OrdersOf(names) ==
  IF names = {} THEN {<<>>}
  ELSE UNION { { <<n>> \o rest : rest \in OrdersOf(names \ {n}) } : n \in names }

\* the tests objects over the given names: the keys in the order of their
\* insertion, each with the outcome of the test
TestObjects(names, outcomes) ==
  UNION { UNION { { [k \in 1..Len(keys) |-> <<keys[k], v[keys[k]]>>] : v \in [d -> outcomes] } :
                  keys \in OrdersOf(d) } : d \in SUBSET names }

TestMaps == TestObjects(TestNames, BOOLEAN)

\* Object.keys(tests)
ObjectKeys(tests) == [k \in 1..Len(tests) |-> tests[k][1]]

\* result.tests[testName]
TestOf(tests, testName) ==
  IF \E k \in 1..Len(tests) : tests[k][1] = testName
    THEN Defined(tests[CHOOSE k \in 1..Len(tests) : tests[k][1] = testName][2])
    ELSE Undefined

\* the current results: the first target ran any of the tests, the second
\* ran both, so that every name has a row and a name can be absent from the
\* first target
TableResults ==
  { << [serverName |-> "srv", tests |-> t],
       [serverName |-> "cli", tests |-> <<<<NameA, TRUE>>, <<NameB, FALSE>>>>] >> :
      t \in TestMaps }

\* what fetchBaselineResults returned for one branch: nothing, the results
\* of the first target, or the results of both targets
FetchedResults ==
  {NoResult}
    \cup { [n \in {"srv"} |-> [serverName |-> "srv", tests |-> t]] : t \in TestMaps }
    \cup { [n \in {"srv", "cli"} |->
              [serverName |-> n,
               tests |-> <<<<NameA, n = "srv">>, <<NameB, TRUE>>>>]] }

\* the requested baseline branches, in the order of the input
BranchLists ==
  {<<>>} \cup { <<b>> : b \in BranchNames }
         \cup { s \in BranchNames \X BranchNames : s[1] # s[2] }

\* the baselines record runCommentMode builds: one key per requested branch
\* for which results were fetched
BuildBaselines(branches, fetched) ==
  LET keys == { branches[k] : k \in { j \in 1..Len(branches) : fetched[branches[j]] # NoResult } }
  IN  [b \in keys |-> fetched[b]]

\* the order of strings that Array.prototype.sort uses without a comparator:
\* by code unit, a proper prefix before the longer string
CodeUnitLess(x, y) ==
  \E i \in 1..(Len(x) + 1) :
    /\ \A h \in 1..(i - 1) : h <= Len(y) /\ x[h] = y[h]
    /\ i <= Len(y)
    /\ i <= Len(x) => x[i] < y[i]

\* Set.add for every key, in the order of the keys
RECURSIVE AddKeys(_, _)
AddKeys(added, keys) ==
  IF keys = <<>> THEN added
  ELSE AddKeys(IF \E k \in 1..Len(added) : added[k] = Head(keys)
                 THEN added ELSE Append(added, Head(keys)),
               Tail(keys))

\* the Set of getAllTestNames after the loop over the results
RECURSIVE CollectNames(_, _)
CollectNames(added, rs) ==
  IF rs = <<>> THEN added
  ELSE CollectNames(AddKeys(added, ObjectKeys(Head(rs).tests)), Tail(rs))

\* the place of name in a sorted sequence
RECURSIVE InsertSorted(_, _)
InsertSorted(sorted, name) ==
  IF sorted = <<>> THEN <<name>>
  ELSE IF CodeUnitLess(name, Head(sorted)) THEN <<name>> \o sorted
  ELSE <<Head(sorted)>> \o InsertSorted(Tail(sorted), name)

\* Array.prototype.sort on strings
RECURSIVE SortNames(_)
SortNames(names) ==
  IF names = <<>> THEN <<>>
  ELSE InsertSorted(SortNames(Tail(names)), Head(names))

\* the names in the order of their insertion into the Set, not sorted
UnsortedTestNames(rs) == CollectNames(<<>>, rs)

getAllTestNames(rs) == SortNames(CollectNames(<<>>, rs))

\* baselines?.[branch]?.[serverName]?.tests[testName]
BaselineTest(record, branch, serverName, testName) ==
  IF branch \in DOMAIN record /\ serverName \in DOMAIN record[branch]
    THEN TestOf(record[branch][serverName].tests, testName)
    ELSE Undefined

\* the change indicator of a cell
FlagOf(current, baseline) ==
  IF baseline # Undefined /\ baseline # current
    THEN IF current = Defined(TRUE) /\ baseline = Defined(FALSE) THEN 1
         ELSE IF current = Defined(FALSE) /\ baseline = Defined(TRUE) THEN -1
         ELSE 0
    ELSE 0

\* a cell of the table with the baseline of the given branch
CellAgainst(branch, result, record, testName) ==
  LET current == TestOf(result.tests, testName)
      baseline == BaselineTest(record, branch, result.serverName, testName)
  IN  [icon |-> IF current = Defined(TRUE) THEN CheckGlyph
                ELSE IF current = Defined(FALSE) THEN CrossGlyph
                ELSE DashGlyph,
       flag |-> FlagOf(current, baseline)]

\* the cell generateDetailTable builds: its baseline is baselines.main
Cell(result, record, testName) == CellAgainst("main", result, record, testName)

\* the rows of the table, each the test name and the cells of the targets; the
\* table is '' (no rows) when there is no test name
generateDetailTable(rs, record) ==
  LET allTests == getAllTestNames(rs)
  IN  [r \in 1..Len(allTests) |->
         [testName |-> allTests[r],
          cells |-> [k \in 1..Len(rs) |-> Cell(rs[k], record, allTests[r])]]]

\* the calls of getAllTestNames: up to MaxResults results, each with any of
\* the three names as its keys, in any order of insertion
MaxResults == 2
NameObjects == TestObjects({NameA, NameB, NameAb}, {TRUE})

RECURSIVE ResultLists(_)
ResultLists(n) ==
  IF n = 0 THEN {<<>>}
  ELSE ResultLists(n - 1)
         \cup { Append(rs, [serverName |-> <<"server", Len(rs) + 1>>, tests |-> t]) :
                  rs \in { l \in ResultLists(n - 1) : Len(l) = n - 1 }, t \in NameObjects }

NamesCalls == { [fn |-> "getAllTestNames", results |-> rs] : rs \in ResultLists(MaxResults) }

TableCalls ==
  { [fn |-> "generateDetailTable", results |-> r, branches |-> b, fetched |-> f] :
      r \in TableResults, b \in BranchLists, f \in [BranchNames -> FetchedResults] }

(***************************************************************************)
(* generateBadgeData: the message and the colour of the badge of a result. *)
(***************************************************************************)
MaxBadgeTotal == 5

\* the message 'no tests'
NoTestsMessage == [text |-> "no tests"]

\* the message `${passed}/${total} (${rate}%)`
RatioMessage(result) ==
  [text |-> "ratio", passed |-> result.passed, total |-> result.total,
   rate |-> result.rate]

\* a threshold that leaves out rate = 60
AboveWarning(rate) == rate > 60

\* result.rate >= 60
IsWarning(rate) == rate >= 60

generateBadgeData(serverName, result) ==
  [schemaVersion |-> 1,
   label |-> <<"MCP Conformance (", serverName, ")">>,
   message |-> IF result.total = 0 THEN NoTestsMessage ELSE RatioMessage(result),
   color |-> IF result.total = 0 THEN "lightgrey"
             ELSE IF result.passed = result.total THEN "brightgreen"
             ELSE IF IsWarning(result.rate) THEN "yellow"
             ELSE "red"]

\* the results a badge is made for: the counters of a run, with the rate of
\* the run or a rate next to the threshold
BadgeResults ==
  { r \in [passed : 0..MaxBadgeTotal, total : 0..MaxBadgeTotal, rate : 0..100] :
      /\ r.passed <= r.total
      /\ r.rate \in {Rate(r.passed, r.total), 59, 60, 61} }

BadgeCalls ==
  { [fn |-> "generateBadgeData", serverName |-> "srv", result |-> r] :
      r \in BadgeResults }

(***************************************************************************)
(* The names of the targets.  A name is what the configuration says: no    *)
(* code checks it or changes it.  It is kept as the pieces of its text.    *)
(***************************************************************************)
ClientMark == "-client"
TargetNames == { <<"py">>, <<"ts">>, <<"py", ClientMark>> }

\* the lists of up to n names
RECURSIVE NameLists(_)
NameLists(n) ==
  IF n = 0 THEN {<<>>}
  ELSE NameLists(n - 1)
         \cup { Append(l, t) : l \in { x \in NameLists(n - 1) : Len(x) = n - 1 },
                               t \in TargetNames }

\* the result runClientConformanceTest returns for a client: serverName is
\* client.name (the counters and the tests play no part in what follows)
ClientTestResult(name) == [serverName |-> name]

\* the result runServerConformanceTest returns for a server
ServerTestResult(name) == [serverName |-> name]

\* the results of runAllConformanceTests in 'both' mode for servers and
\* clients of the given names
ResultsOfBoth(serverNames, clientNames) ==
  [k \in 1..Len(serverNames) |-> ServerTestResult(serverNames[k])]
    \o [k \in 1..Len(clientNames) |-> ClientTestResult(clientNames[k])]

\* generateCommentBody: the split of the results into the two sections
SectionsOf(rs) ==
  [server |-> SelectSeq(rs, LAMBDA r : ~Includes(r.serverName, ClientMark)),
   client |-> SelectSeq(rs, LAMBDA r : Includes(r.serverName, ClientMark))]

SectionCalls ==
  { [fn |-> "generateCommentBody", serverNames |-> a, clientNames |-> b] :
      a \in NameLists(1), b \in NameLists(MaxResults) }

(***************************************************************************)
(* The results directory between the two phases: runTestMode writes two    *)
(* files per result, runCommentMode reads the files *-results.json.  The   *)
(* directory is a function from file names to contents.                    *)
(***************************************************************************)
ResultsSuffix == "-results.json"
OutputSuffix == "-output.txt"

WriteFile(dir, file, content) ==
  [f \in DOMAIN dir \cup {file} |-> IF f = file THEN content ELSE dir[f]]

\* runTestMode: for (const result of results) the two writeFileSync calls
RECURSIVE SaveResults(_, _)
SaveResults(dir, rs) ==
  IF rs = <<>> THEN dir
  ELSE SaveResults(
         WriteFile(WriteFile(dir, Head(rs).serverName \o <<ResultsSuffix>>, Head(rs)),
                   Head(rs).serverName \o <<OutputSuffix>>, Head(rs).rawOutput),
         Tail(rs))

\* runCommentMode: the files that end with -results.json, each parsed (the
\* order of readdirSync is not modelled: the loaded results are a function of
\* the file name)
LoadResults(dir) ==
  [f \in { g \in DOMAIN dir : g[Len(g)] = ResultsSuffix } |-> dir[f]]

\* the results that are saved: their name, a counter and a raw output that
\* tell them apart
SavedResults ==
  { [serverName |-> n, passed |-> p, rawOutput |-> <<"output", p>>] :
      n \in TargetNames, p \in 0..1 }

RECURSIVE SavedLists(_)
SavedLists(n) ==
  IF n = 0 THEN {<<>>}
  ELSE SavedLists(n - 1)
         \cup { Append(l, r) : l \in { x \in SavedLists(n - 1) : Len(x) = n - 1 },
                               r \in SavedResults }

SaveCalls == { [fn |-> "saveResults", results |-> rs] : rs \in SavedLists(MaxResults) }


(***************************************************************************)
(* The baselines of a comment: runCommentMode fetches the history of every *)
(* requested branch and generateSummaryTable compares every result with    *)
(* every branch that was fetched.  The baselines object is kept as its     *)
(* keys in the order of their insertion, each with the results fetched for *)
(* the branch (a function of the server name).                             *)
(***************************************************************************)
\* baselines[branch] = baselineResults
SetBaseline(record, branch, value) ==
  IF \E k \in 1..Len(record) : record[k][1] = branch
    THEN [k \in 1..Len(record) |->
            IF record[k][1] = branch THEN <<branch, value>> ELSE record[k]]
    ELSE Append(record, <<branch, value>>)

\* a loop body that starts the record again at a branch without results
ResetOnAbsent(record, branch, value) ==
  IF value = NoResult THEN <<>> ELSE SetBaseline(record, branch, value)

\* if (baselineResults) { baselines[branch] = baselineResults; }
KeepBaseline(record, branch, value) ==
  IF value = NoResult THEN record ELSE SetBaseline(record, branch, value)

\* for (const branch of inputs.baselineBranches): what the loop throws, or the
\* record it has built; history[branch] is the state of the branch's history
\* (env) and what fetchBaselineResults returns or raises for it (r)
RECURSIVE FetchBranches(_, _, _, _)
FetchBranches(record, branches, history, k) ==
  IF k > Len(branches) THEN [thrown |-> FALSE, baselines |-> Defined(record)]
  ELSE IF history[branches[k]].r.raised THEN [thrown |-> TRUE, baselines |-> Undefined]
  ELSE FetchBranches(KeepBaseline(record, branches[k], history[branches[k]].r.value),
                     branches, history, k + 1)

\* let baselines; if (inputs.includeBaselineComparison) { baselines = {}; ... }
FetchBaselines(include, branches, history) ==
  IF include THEN FetchBranches(<<>>, branches, history, 1)
  ELSE [thrown |-> FALSE, baselines |-> Undefined]

\* baselines ? Object.keys(baselines) : []
BaselineBranches(object) ==
  IF object = Undefined THEN <<>>
  ELSE [k \in 1..Len(object.value) |-> object.value[k][1]]

\* baselines?.[branch]?.[serverName]
BaselineOf(object, branch, serverName) ==
  IF object = Undefined THEN NoResult
  ELSE LET hits == { k \in 1..Len(object.value) : object.value[k][1] = branch }
       IN  IF hits = {} THEN NoResult
           ELSE LET found == object.value[CHOOSE k \in hits : TRUE][2]
                IN  IF serverName \in DOMAIN found THEN found[serverName] ELSE NoResult

\* the table without its separator: the branches of the header, and for every
\* result its name, its score and one cell per branch of the header
generateSummaryTable(rs, object) ==
  LET baselineBranches == BaselineBranches(object)
  IN  [header |-> baselineBranches,
       rows |-> [r \in 1..Len(rs) |->
                   [serverName |-> rs[r].serverName,
                    score |-> [passed |-> rs[r].passed, total |-> rs[r].total],
                    cells |-> [k \in 1..Len(baselineBranches) |->
                                 getComparisonIcon(rs[r],
                                   BaselineOf(object, baselineBranches[k],
                                              rs[r].serverName))]]]]

\* the current results: a first target with any counters and a second one
\* that the history knows under the old format only
SummaryResults ==
  { << [serverName |-> "python", passed |-> c.passed, total |-> c.total],
       [serverName |-> "typescript", passed |-> 0, total |-> 1] >> : c \in Counters }

\* the runs that build a summary table: with the comparison, for any
\* requested branches and any history of each; without it, for one history
SummaryCalls ==
  { [fn |-> "generateSummaryTable", results |-> r, include |-> TRUE,
     branches |-> b, history |-> h] :
      r \in SummaryResults, b \in BranchLists, h \in [BranchNames -> BaselineOutcomes] }
    \cup { [fn |-> "generateSummaryTable", results |-> r, include |-> FALSE,
            branches |-> <<"main", "canary">>, history |-> h] :
             r \in SummaryResults,
             h \in { g \in [BranchNames -> BaselineOutcomes] :
                       \A b \in BranchNames :
                         ~g[b].env.runs \in {"throws", "none"}
                           /\ g[b].env.artifacts = "ok" /\ g[b].env.new = "ok"
                           /\ g[b].env.files = <<Undecodable, "python">>
                           /\ g[b].env.old = <<"ok", "absent">> } }

CallInit ==
  /\ testType = "server"
  /\ servers = <<>>
  /\ clients = <<>>
  /\ badgeOn = FALSE
  /\ pc = "idle"
  /\ cur = 0
  /\ sub = 0
  /\ results = <<>>
  /\ loop = NoLoop
  /\ outputs = NoOutputs
  /\ runFailed = FALSE
  /\ log = <<>>
  /\ faults = 0
  /\ pText = EmptyText
  /\ pResult = NoResult
  /\ pParser = None
  /\ pAgain = NoResult
  /\ fIn \in ListCalls \cup IconCalls \cup TableCalls \cup NamesCalls
                \cup BadgeCalls \cup SectionCalls \cup SaveCalls
               \cup SummaryCalls
  /\ fOut = NoValue
  /\ cin = NoInputs
  /\ comments = <<>>
  /\ before = <<>>
  /\ modes = <<>>
  /\ baselines = <<>>

Return(value) ==
  /\ fOut = NoValue
  /\ fOut' = [returned |-> TRUE, value |-> value]
  /\ UNCHANGED <<fIn, parseVars, testVars, commentVars>>

(* listClientScenarios on the output of the list subcommand *)
ListScenarios ==
  /\ fIn.fn = "listClientScenarios"
  /\ Return(listClientScenarios(ListingText(fIn.catalog)))

(* getComparisonIcon on a current result and an optional baseline *)
ComparisonIcon ==
  /\ fIn.fn = "getComparisonIcon"
  /\ Return(getComparisonIcon(fIn.current, fIn.baseline))

(* generateDetailTable on the current results and the baselines that were
   fetched for the requested branches *)
DetailTable ==
  /\ fIn.fn = "generateDetailTable"
  /\ Return(generateDetailTable(fIn.results,
                                BuildBaselines(fIn.branches, fIn.fetched)))

(* getAllTestNames on a list of results *)
AllTestNames ==
  /\ fIn.fn = "getAllTestNames"
  /\ Return(getAllTestNames(fIn.results))

(* generateBadgeData on a result *)
BadgeData ==
  /\ fIn.fn = "generateBadgeData"
  /\ Return(generateBadgeData(fIn.serverName, fIn.result))

(* generateCommentBody on the results of a run in 'both' mode *)
Sections ==
  /\ fIn.fn = "generateCommentBody"
  /\ Return(SectionsOf(ResultsOfBoth(fIn.serverNames, fIn.clientNames)))

(* the results directory after runTestMode has written the results into an
   empty directory, and what runCommentMode loads from it *)
SaveAndLoad ==
  /\ fIn.fn = "saveResults"
  /\ LET dir == SaveResults(<<>>, fIn.results)
     IN  Return([dir |-> dir, loaded |-> LoadResults(dir)])

(* runCommentMode from the baseline loop to the summary table of the comment:
   the baselines fetched for the requested branches, then generateSummaryTable
   on the results and these baselines *)
SummaryTable ==
  /\ fIn.fn = "generateSummaryTable"
  /\ LET fetched == FetchBaselines(fIn.include, fIn.branches, fIn.history)
     IN  Return(IF fetched.thrown THEN [thrown |-> TRUE]
                ELSE [thrown |-> FALSE,
                      table |-> generateSummaryTable(fIn.results, fetched.baselines)])

CallNext ==
  \/ ListScenarios
  \/ ComparisonIcon
  \/ DetailTable
  \/ AllTestNames
  \/ BadgeData
  \/ Sections
  \/ SaveAndLoad
  \/ SummaryTable

SpecCalls == CallInit /\ [][CallNext]_vars

\* the identifiers of the entries in entries that carry no tag, in their order
StableIds(entries) ==
  LET stable == SelectSeq(entries, LAMBDA e : e.maturity = "stable")
  IN  [k \in 1..Len(stable) |-> <<stable[k].id>>]

\* C17: listClientScenarios returns, in the order of the listing, exactly the
\* entries of the client section that are tagged neither [draft] nor
\* [extension]: no tagged entry and no entry of the server section is
\* returned, and nothing is returned when there is no client section.
C17_StableClientEntriesOnly ==
  (fIn.fn = "listClientScenarios" /\ fOut.returned) =>
    fOut.value = StableIds(fIn.catalog.client)

\* C17: the listing had a client section of a tagged and an untagged entry
\* and a server section with an untagged entry, and the function returned
C17_Witness ==
  /\ fIn.fn = "listClientScenarios"
  /\ fOut.returned
  /\ Len(fIn.catalog.client) = 2
  /\ Len(fOut.value) = 1
  /\ StableIds(fIn.catalog.server) # <<>>

\* C18: the comparison is new exactly when the baseline is absent or has
\* total = 0; otherwise it shows delta = current.passed - baseline.passed, as
\* an improvement when delta > 0, a regression when delta < 0 and unchanged
\* when delta = 0.
C18_ComparisonIcon ==
  (fIn.fn = "getComparisonIcon" /\ fOut.returned) =>
    LET baseline == fIn.baseline
        absent == baseline = NoResult
    IN  /\ fOut.value = NewIcon <=> (absent \/ baseline.total = 0)
        /\ fOut.value # NewIcon =>
             LET delta == fIn.current.passed - baseline.passed
             IN  /\ delta > 0 => fOut.value = DeltaIcon("green", "+", delta)
                 /\ delta < 0 => fOut.value = DeltaIcon("red", "-", -delta)
                 /\ delta = 0 => fOut.value = DeltaIcon("white", "+", 0)

\* C18: a current result with passed tests was compared with a baseline of
\* total = 0
C18_Witness ==
  /\ fIn.fn = "getComparisonIcon"
  /\ fOut.returned
  /\ fIn.baseline # NoResult
  /\ fIn.baseline.total = 0
  /\ fIn.current.passed > 0

\* C18: a current result was compared with a baseline that passed more tests
C18_WitnessRegression ==
  /\ fIn.fn = "getComparisonIcon"
  /\ fOut.returned
  /\ fIn.baseline # NoResult
  /\ fIn.baseline.passed > fIn.current.passed

\* the flags of a table: for every test name, the flag of each target's cell
Flags(table) ==
  [r \in 1..Len(table) |->
     [testName |-> table[r].testName,
      flags |-> [k \in 1..Len(table[r].cells) |-> table[r].cells[k].flag]]]

\* the first requested branch
Primary(branches) == IF branches = <<>> THEN None ELSE branches[1]

\* the baselines record with no other key than the given branch
OnlyBranch(record, branch) == [b \in DOMAIN record \cap {branch} |-> record[b]]

\* the table the current results give against the baseline of one branch
TableAgainst(branch, rs, record) ==
  LET allTests == getAllTestNames(rs)
  IN  [r \in 1..Len(allTests) |->
         [testName |-> allTests[r],
          cells |-> [k \in 1..Len(rs) |->
                       CellAgainst(branch, rs[k], record, allTests[r])]]]

TableReturned == fIn.fn = "generateDetailTable" /\ fOut.returned

\* C19: the per-test flags of the detail table are computed against exactly
\* one baseline, that of the first requested branch, whatever its name: the
\* flags are those the results give against that branch alone, and the
\* baselines of the other requested branches change no flag.
C19_FlagsFromFirstBranch ==
  TableReturned =>
    LET record == BuildBaselines(fIn.branches, fIn.fetched)
        first == Primary(fIn.branches)
    IN  Flags(fOut.value)
          = Flags(TableAgainst(first, fIn.results, OnlyBranch(record, first)))

\* C19 as the code has it: the flags are computed against exactly one
\* baseline, that of the branch named main, wherever it was requested
C19_FlagsFromMainBranch ==
  TableReturned =>
    LET record == BuildBaselines(fIn.branches, fIn.fetched)
    IN  Flags(fOut.value)
          = Flags(TableAgainst("main", fIn.results, OnlyBranch(record, "main")))

\* C19: canary was requested first and main second, both baselines were
\* fetched, and the table was generated with a flag in it
C19_Witness ==
  /\ TableReturned
  /\ fIn.branches = <<"canary", "main">>
  /\ fIn.fetched["canary"] # NoResult
  /\ fIn.fetched["main"] # NoResult
  /\ \E r \in 1..Len(fOut.value) : fOut.value[r].cells[1].flag # 0

\* the recorded outcome of a test in the baseline of the first requested
\* branch
PrimaryTest(k, testName) ==
  BaselineTest(BuildBaselines(fIn.branches, fIn.fetched), Primary(fIn.branches),
               fIn.results[k].serverName, testName)

\* the flag semantics of a cell against a recorded baseline outcome
FlagMeans(flag, current, baseline) ==
  /\ flag = 1 <=> (baseline = Defined(FALSE) /\ current = Defined(TRUE))
  /\ flag = -1 <=> (baseline = Defined(TRUE) /\ current = Defined(FALSE))
  /\ flag = 0 <=> \/ baseline = Undefined
                  \/ current = Undefined
                  \/ baseline = current

\* C20: a cell is flagged +1 exactly when the primary baseline records the
\* test as failed and the current result records it as passed, -1 exactly
\* when the baseline records passed and the current result failed, and has
\* no flag when the test is absent from the baseline, absent from the
\* current result, or unchanged.
C20_FlagAgainstPrimary ==
  TableReturned =>
    \A r \in 1..Len(fOut.value) : \A k \in 1..Len(fIn.results) :
      FlagMeans(fOut.value[r].cells[k].flag,
                TestOf(fIn.results[k].tests, fOut.value[r].testName),
                PrimaryTest(k, fOut.value[r].testName))

\* C20 as the code has it: the same meaning of the flags, against the
\* baseline of the branch named main
C20_FlagAgainstMain ==
  TableReturned =>
    \A r \in 1..Len(fOut.value) : \A k \in 1..Len(fIn.results) :
      FlagMeans(fOut.value[r].cells[k].flag,
                TestOf(fIn.results[k].tests, fOut.value[r].testName),
                BaselineTest(BuildBaselines(fIn.branches, fIn.fetched), "main",
                             fIn.results[k].serverName, fOut.value[r].testName))

\* C20: the only requested branch was canary, its baseline records a test
\* as failed that the current result of the first target records as passed,
\* and the table was generated
C20_Witness ==
  /\ TableReturned
  /\ fIn.branches = <<"canary">>
  /\ \E testName \in TestNames :
       /\ PrimaryTest(1, testName) = Defined(FALSE)
       /\ TestOf(fIn.results[1].tests, testName) = Defined(TRUE)

\* the test names of the rows of a returned table, or the names returned by
\* getAllTestNames
RowNames ==
  IF fIn.fn = "generateDetailTable"
    THEN [r \in 1..Len(fOut.value) |-> fOut.value[r].testName]
    ELSE fOut.value

\* the names that are keys of the tests of some result
NamesOf(rs) ==
  UNION { { rs[k].tests[j][1] : j \in 1..Len(rs[k].tests) } : k \in 1..Len(rs) }

\* x comes before y in the lexicographic order of their code units
RECURSIVE Lexicographic(_, _)
Lexicographic(x, y) ==
  IF y = <<>> THEN FALSE
  ELSE IF x = <<>> THEN TRUE
  ELSE IF Head(x) # Head(y) THEN Head(x) < Head(y)
  ELSE Lexicographic(Tail(x), Tail(y))

Reversed(rs) == [k \in 1..Len(rs) |-> rs[Len(rs) + 1 - k]]

NamesReturned ==
  fOut.returned /\ fIn.fn \in {"getAllTestNames", "generateDetailTable"}

\* C21: the rows of a detail table (the names getAllTestNames returns) are the
\* test names of the supplied results in lexicographic order: every name of
\* every result appears exactly once, no other name appears, and the results
\* in the opposite order give the same names in the same order.
C21_SortedUnionOfNames ==
  NamesReturned =>
    /\ \A r \in 1..(Len(RowNames) - 1) : Lexicographic(RowNames[r], RowNames[r + 1])
    /\ { RowNames[r] : r \in 1..Len(RowNames) } = NamesOf(fIn.results)
    /\ RowNames = getAllTestNames(Reversed(fIn.results))

\* C21: getAllTestNames returned for two results that share a name, and the
\* names were inserted in another order than the one returned
C21_Witness ==
  /\ fIn.fn = "getAllTestNames"
  /\ fOut.returned
  /\ Len(fIn.results) = 2
  /\ NamesOf(<<fIn.results[1]>>) \cap NamesOf(<<fIn.results[2]>>) # {}
  /\ Len(fOut.value) = 3
  /\ UnsortedTestNames(fIn.results) # fOut.value

\* C22: the badge is lightgrey exactly when total = 0, brightgreen exactly
\* when passed = total > 0, otherwise yellow exactly when rate >= 60 and red
\* when it is below; the message is 'no tests' exactly when total = 0 and
\* passed/total (rate%) otherwise.
C22_BadgeColourAndMessage ==
  (fIn.fn = "generateBadgeData" /\ fOut.returned) =>
    LET result == fIn.result
        badge == fOut.value
        rest == result.total # 0 /\ result.passed # result.total
    IN  /\ badge.color = "lightgrey" <=> result.total = 0
        /\ badge.color = "brightgreen" <=>
             (result.passed = result.total /\ result.total > 0)
        /\ rest => (badge.color = "yellow" <=> result.rate >= 60)
        /\ rest => (badge.color = "red" <=> result.rate < 60)
        /\ badge.color \in {"yellow", "red"} => rest
        /\ badge.message = NoTestsMessage <=> result.total = 0
        /\ result.total # 0 =>
             badge.message = [text |-> "ratio", passed |-> result.passed,
                              total |-> result.total, rate |-> result.rate]

\* C22: a badge was made for a result of which three tests of five passed,
\* with the rate 60
C22_Witness ==
  /\ fIn.fn = "generateBadgeData"
  /\ fOut.returned
  /\ fIn.result.passed = 3
  /\ fIn.result.total = 5
  /\ fIn.result.rate = 60
  /\ fIn.result.rate = Rate(3, 5)

\* the files of a directory that end with the suffix
FilesWith(dir, suffix) == { f \in DOMAIN dir : f[Len(f)] = suffix }

\* C26: after the execution phase the directory holds one serialized result
\* and one raw-output blob for each result: no two results are written to the
\* same file, every result is the content of a file of its own, and the
\* reporting phase loads as many results as were produced.
C26_OneFilePairPerResult ==
  (fIn.fn = "saveResults" /\ fOut.returned) =>
    LET dir == fOut.value.dir
        rs == fIn.results
    IN  /\ Cardinality(FilesWith(dir, ResultsSuffix)) = Len(rs)
        /\ Cardinality(FilesWith(dir, OutputSuffix)) = Len(rs)
        /\ \A k \in 1..Len(rs) :
             \E f \in FilesWith(dir, ResultsSuffix) :
               /\ dir[f] = rs[k]
               /\ \A h \in 1..Len(rs) : (h # k /\ dir[f] = rs[h]) => rs[h] = rs[k]
        /\ Cardinality(DOMAIN fOut.value.loaded) = Len(rs)

\* C26 as the code has it: the directory holds one pair of files for each
\* name of a result, with the last result of that name in it
C26_OneFilePairPerName ==
  (fIn.fn = "saveResults" /\ fOut.returned) =>
    LET dir == fOut.value.dir
        rs == fIn.results
        names == { rs[k].serverName : k \in 1..Len(rs) }
    IN  /\ DOMAIN dir = { n \o <<ResultsSuffix>> : n \in names }
                          \cup { n \o <<OutputSuffix>> : n \in names }
        /\ \A k \in 1..Len(rs) :
             (\A h \in (k + 1)..Len(rs) : rs[h].serverName # rs[k].serverName) =>
               /\ dir[rs[k].serverName \o <<ResultsSuffix>>] = rs[k]
               /\ dir[rs[k].serverName \o <<OutputSuffix>>] = rs[k].rawOutput
        /\ Cardinality(DOMAIN fOut.value.loaded) = Cardinality(names)

\* C26: two results of the same name and of different content were saved
C26_Witness ==
  /\ fIn.fn = "saveResults"
  /\ fOut.returned
  /\ Len(fIn.results) = 2
  /\ fIn.results[1].serverName = fIn.results[2].serverName
  /\ fIn.results[1] # fIn.results[2]

\* C27: of the results of a run in 'both' mode, every result of client
\* testing has the client mark in its name and is rendered in the Client
\* Conformance section and not in the Server Conformance section, and every
\* result of server testing is rendered in the Server Conformance section.
C27_ClientResultsInClientSection ==
  (fIn.fn = "generateCommentBody" /\ fOut.returned) =>
    LET rs == ResultsOfBoth(fIn.serverNames, fIn.clientNames)
        ns == Len(fIn.serverNames)
    IN  /\ \A k \in (ns + 1)..Len(rs) : Includes(rs[k].serverName, ClientMark)
        /\ fOut.value.server = SubSeq(rs, 1, ns)
        /\ fOut.value.client = SubSeq(rs, ns + 1, Len(rs))

\* C27 as the code has it: a result is rendered in the Client Conformance
\* section exactly when its name includes the client mark, whichever testing
\* produced it
C27_SectionByName ==
  (fIn.fn = "generateCommentBody" /\ fOut.returned) =>
    LET rs == ResultsOfBoth(fIn.serverNames, fIn.clientNames)
        inClient == { k \in 1..Len(rs) : Includes(rs[k].serverName, ClientMark) }
    IN  /\ Len(fOut.value.client) = Cardinality(inClient)
        /\ Len(fOut.value.server) = Len(rs) - Cardinality(inClient)
        /\ \A k \in 1..Len(fOut.value.client) :
             Includes(fOut.value.client[k].serverName, ClientMark)
        /\ \A k \in 1..Len(fOut.value.server) :
             ~Includes(fOut.value.server[k].serverName, ClientMark)

\* C27: a server and a client whose configured name has no client mark were
\* tested, and the comment sections were made
C27_Witness ==
  /\ fIn.fn = "generateCommentBody"
  /\ fOut.returned
  /\ Len(fIn.serverNames) = 1
  /\ Len(fIn.clientNames) = 1
  /\ ~Includes(fIn.serverNames[1], ClientMark)
  /\ ~Includes(fIn.clientNames[1], ClientMark)

(***************************************************************************)
(* Properties of the baselines and of the summary table.                    *)
(***************************************************************************)
\* the history of the branch yields results: it is none of the failure cases
\* and holds a decodable result
HasBaseline(env) == ~BaselineFails(env) /\ DecodableNames(env) # {}

\* what the history of the branch holds for the server: the decodable file of
\* the new format, else the text of the old format, else nothing
HistoryOf(env, serverName) ==
  IF ~HasBaseline(env) \/ serverName \notin DecodableNames(env)
    THEN NoResult
  ELSE IF env.new = "ok" /\ \E i \in 1..Len(env.files) : env.files[i] = serverName
    THEN StoredResult(serverName)
  ELSE parseOldResultsFile(OldContent, serverName)

\* a summary table was built, or the run threw before it
SummaryReturned == fIn.fn = "generateSummaryTable" /\ fOut.returned

\* C31: every requested baseline branch is fetched and compared on its own:
\* no history of a branch, absent or failing, makes the run throw or keeps
\* another branch out of the table; the header shows the requested branches
\* whose history yields results, in the order of the request (none without the
\* comparison); there is one row per result; and every row has exactly one
\* cell per branch of the header, the comparison of the row's result with
\* what the history of that branch holds for the row's server name.
C31_BranchesIndependent ==
  SummaryReturned =>
    LET shown == IF fIn.include
                 THEN SelectSeq(fIn.branches, LAMBDA b : HasBaseline(fIn.history[b].env))
                 ELSE <<>>
    IN  /\ ~fOut.value.thrown
        /\ fOut.value.table.header = shown
        /\ Len(fOut.value.table.rows) = Len(fIn.results)
        /\ \A r \in 1..Len(fIn.results) :
             LET row == fOut.value.table.rows[r]
             IN  /\ row.serverName = fIn.results[r].serverName
                 /\ Len(row.cells) = Len(shown)
                 /\ \A k \in 1..Len(shown) :
                      row.cells[k] =
                        getComparisonIcon(fIn.results[r],
                                          HistoryOf(fIn.history[shown[k]].env,
                                                    row.serverName))

\* C31: two branches were requested, the history of the first one failed and
\* the table compares the first result with the second branch
C31_Witness ==
  /\ SummaryReturned
  /\ fIn.include
  /\ Len(fIn.branches) = 2
  /\ BaselineFails(fIn.history[fIn.branches[1]].env)
  /\ ~fOut.value.thrown
  /\ fOut.value.table.header = <<fIn.branches[2]>>
  /\ fOut.value.table.rows[1].cells[1].glyph = "green"
  /\ fOut.value.table.rows[2].cells[1] = NewIcon

\* C31: both branches are in the header and a row has different cells for them
C31_WitnessTwoBranches ==
  /\ SummaryReturned
  /\ Len(fOut.value.table.header) = 2
  /\ \E r \in 1..2 :
       fOut.value.table.rows[r].cells[1] # fOut.value.table.rows[r].cells[2]

(***************************************************************************)
(* The counters of a result and its tests map.                              *)
(***************************************************************************)
\* the results that were made: those of the run and the one of the parser
ResultsMade ==
  { results[k] : k \in 1..Len(results) }
    \cup (IF pResult = NoResult THEN {} ELSE {pResult})

NamesWith(r, value) == { name \in DOMAIN r.tests : r.tests[name] = value }

\* C32 (as stated): in every result made by the line scan or by the scenario
\* loop of a client, passed is the number of names that tests maps to true,
\* failed the number of names it maps to false, and total the number of its
\* keys.
C32_CountsAgreeWithTests ==
  \A r \in ResultsMade :
    /\ r.passed = Cardinality(NamesWith(r, TRUE))
    /\ r.failed = Cardinality(NamesWith(r, FALSE))
    /\ r.total = Cardinality(DOMAIN r.tests)

\* C32, what holds: the counters are never below the numbers of names, and
\* total is their sum
C32_CountsCoverTests ==
  \A r \in ResultsMade :
    /\ r.passed >= Cardinality(NamesWith(r, TRUE))
    /\ r.failed >= Cardinality(NamesWith(r, FALSE))
    /\ r.total = r.passed + r.failed
    /\ r.total >= Cardinality(DOMAIN r.tests)

\* C32: a client whose scenarios input names the same scenario twice has run
\* it twice, and its result counts two tests for the one key of its map
C32_Witness ==
  \E k \in 1..Len(results) :
    \E i \in 1..Len(clients) :
      /\ results[k].serverName = clients[i].name
      /\ Len(clients[i].scenarios) = 2
      /\ clients[i].scenarios[1] = clients[i].scenarios[2]
      /\ Cardinality({ e \in 1..Len(log) : log[e].op = "scenario" /\ log[e].i = i }) = 2
      /\ Cardinality(DOMAIN results[k].tests) = 1
      /\ results[k].total = 2

\* C32: a text whose two lines record the same test as passed was parsed
C32_WitnessParsed ==
  /\ pResult # NoResult
  /\ HitLines = {1, 2}
  /\ LineRecord(pText[1]) = LineRecord(pText[2])
  /\ LineRecord(pText[1]).value
  /\ pResult.passed = 2
  /\ Cardinality(DOMAIN pResult.tests) = 1

(***************************************************************************)
(* The processes of the servers while the checker runs.                     *)
(***************************************************************************)
\* the calls that end a process
StopCalls == {"stop", "kill"}

\* the servers whose process was started and ran before log event f
StartedRunning(f) ==
  { log[e].i : e \in { g \in 1..(f - 1) : log[g].op = "start" /\ log[g].j = "running" } }

\* the servers whose process the engine has stopped before log event f
Stopped(f) ==
  { log[e].i : e \in { g \in 1..(f - 1) : log[g].op \in StopCalls } }

\* the servers whose process can be running at log event f: it was started,
\* it ran, and nothing in the run has stopped it
CanRun(f) == StartedRunning(f) \ Stopped(f)

\* C33 (as stated): when the checker is invoked for server k, no process
\* started for an earlier server of the run can still be running: the only
\* process that can be running is the one of server k.
C33_EarlierProcessesGone ==
  \A f \in 1..Len(log) :
    (log[f].op = "check" /\ log[f].kind = "server") => CanRun(f) \subseteq {log[f].i}

\* C33 (amended): when the checker is invoked for server k, the process of
\* server k has been started and the settle delay has elapsed, and the engine
\* has stopped no process: every process started for the servers 1..k that
\* ran can still be running, those of the earlier servers included, and no
\* process of a later server has been started.
C33_EarlierProcessesRemain ==
  \A f \in 1..Len(log) :
    (log[f].op = "check" /\ log[f].kind = "server") =>
      /\ \E e \in 1..(f - 1) : log[e].op = "start" /\ log[e].i = log[f].i /\ log[e].ok
      /\ log[f - 1].op = "settle" /\ log[f - 1].i = log[f].i
      /\ CanRun(f) = StartedRunning(f)
      /\ StartedRunning(f) \subseteq 1..log[f].i
      /\ \A i \in 1..(log[f].i - 1) :
           (\E e \in 1..(f - 1) : log[e].op = "start" /\ log[e].i = i
                                   /\ log[e].j = "running")
             => i \in CanRun(f)

\* C33: the checker was invoked for the second server while the process of
\* the first one, which nothing has stopped, can be running and the process
\* of the second one has exited
C33_Witness ==
  \E f \in 1..Len(log) :
    /\ log[f].op = "check" /\ log[f].kind = "server" /\ log[f].i = 2
    /\ CanRun(f) = {1}
    /\ \E e \in 1..(f - 1) : log[e].op = "start" /\ log[e].i = 2 /\ log[e].j = "exited"

(***************************************************************************)
(* The all-passed output of test mode.                                      *)
(***************************************************************************)
\* the names of the configured targets
ConfiguredNames ==
  { servers[i].name : i \in 1..Len(servers) } \cup { clients[i].name : i \in 1..Len(clients) }

\* the target called name has a result in the results output, all of whose
\* tests were executed and passed, and there is at least one of them
PassedItsTests(name) ==
  \E k \in 1..Len(outputs.results) :
    /\ outputs.results[k].serverName = name
    /\ outputs.results[k].total > 0
    /\ outputs.results[k].failed = 0

\* C34 (as stated): the all-passed output is true only if at least one test
\* was executed and every executed test of every configured target passed:
\* it is false when a configured target has no result, has a zero result
\* (total = 0) or has a failed test.
C34_AllPassedOnlyIfTestsPassed ==
  (outputs.set /\ outputs.allPassed) =>
    /\ \E k \in 1..Len(outputs.results) : outputs.results[k].total > 0
    /\ \A name \in ConfiguredNames : PassedItsTests(name)

\* C34, what holds: the all-passed output is true exactly when no result of
\* the results output has a failed test; a zero result and a missing result
\* do not make it false
C34_AllPassedIffNoFailure ==
  outputs.set =>
    /\ outputs.results = results
    /\ outputs.allPassed
         = (\A k \in 1..Len(outputs.results) : outputs.results[k].failed = 0)

\* C34: the only configured target is a server whose start threw: its result
\* is the fallback with total = 0, and the all-passed output is true
C34_Witness ==
  /\ outputs.set
  /\ outputs.allPassed
  /\ Len(servers) = 1 /\ Len(clients) = 0
  /\ Len(outputs.results) = 1
  /\ outputs.results[1].total = 0
  /\ \E e \in 1..Len(log) : log[e].op = "start" /\ ~log[e].ok

\* C34: the test type selects no configured target: there is no result, and
\* the all-passed output is true
C34_WitnessNoResult ==
  /\ outputs.set
  /\ outputs.allPassed
  /\ ConfiguredNames # {}
  /\ outputs.results = <<>>

(***************************************************************************)
(* Termination of the runs.                                                 *)
(***************************************************************************)
\* a comment-mode run is at one of its awaited calls
CommentRunning == pc \in {"fetch", "list", "update", "create"}

\* the comment-mode run that ended has asked for a comment to be written
WriteIssued ==
  \E e \in 1..Len(log) : log[e].op \in {"update_comment", "create_comment"}

\* the calls of the loops over the targets, the setup commands, the scenarios,
\* the baseline branches and the badges
LoopCalls == {"setup", "start", "settle", "check", "list", "scenario", "fetch", "badge"}

\* log event f is a call of a loop that an earlier event has made already:
\* the same call for the same target, branch or badge and the same setup
\* command or scenario index
Repeats(f) ==
  /\ log[f].op \in LoopCalls
  /\ \E e \in 1..(f - 1) :
       /\ log[e].op = log[f].op
       /\ log[e].kind = log[f].kind
       /\ log[e].i = log[f].i
       /\ log[f].op \in {"setup", "scenario"} => log[e].j = log[f].j

\* no loop repeats a target, a setup command, a scenario, a branch or a
\* badge (a step appends at most three events to the log)
NoRepeat ==
  \A f \in 1..Len(log) : f > Len(log) - 3 => ~Repeats(f)

C35_WitnessComment ==
  /\ RunEnded
  /\ ~runFailed
  /\ \E e \in 1..Len(log) : log[e].op = "fetch"
  /\ \E e \in 1..Len(log) : log[e].op \in {"update_comment", "create_comment"} /\ log[e].ok

====
